---- MODULE Spec2Model ----
(***************************************************************************)
(* NotifyKit: the dual-path notification system.                           *)
(*                                                                         *)
(*   - the notification builder (buildNotificationId,                      *)
(*     buildScheduledNotifications),                                       *)
(*   - the IndexedDB fallback store (createNotificationStore),             *)
(*   - the service worker: the local checker                               *)
(*     (checkAndShowDeviceNotifications), the push handler                 *)
(*     (messaging.onBackgroundMessage), cancelDeviceNotification and the   *)
(*     throttle of the fetch listener,                                     *)
(*   - the server's daily scheduler (createDailyScheduler,                 *)
(*     scheduleTaskForUser),                                               *)
(*   - the server's HTTP endpoints (syncUserPreferences,                   *)
(*     manageCategorySubscription, sendUserNotification, sendTestPush)     *)
(*     over the users collection, with the task queue that calls           *)
(*     sendUserNotification,                                               *)
(*   - the time helpers (parseTime, formatTime),                           *)
(*   - the page: initializeFirebase, and of useNotifications the           *)
(*     togglePush and the foreground message listener.                     *)
(*                                                                         *)
(* Time is epoch milliseconds.  Every await of the code is a step          *)
(* boundary: the steps of the page's store calls, of the checker runs and  *)
(* of the push handler interleave freely.  A transaction on the            *)
(* 'scheduled' object store is atomic and exclusive, as IndexedDB          *)
(* specifies: its writes become visible at commit, are discarded on abort, *)
(* and no other request on the object store runs while it is active.       *)
(* The display-only fields of a record (title, body, eventTimeStr) are     *)
(* copied through by every operation and are left out of the record.       *)
(* A handler of the server runs from its request to its answer before the  *)
(* next request or daily pass is taken up.  The status line of the hook    *)
(* (statusMessage and its timer) is left out.                              *)
(***************************************************************************)
EXTENDS Integers, Sequences, FiniteSets, TLC

(***************************************************************************)
(* Bounds of the model.                                                    *)
(***************************************************************************)
MaxOps == 3      \* operations started: calls, runs, pushes, requests
MaxFaults == 1   \* storage / display failures injected

(***************************************************************************)
(* Time.                                                                   *)
(***************************************************************************)
MinuteMs == 60 * 1000
WindowMs == 30 * 60 * 1000
DayAgoMs == 24 * 60 * 60 * 1000
DayMs == 24 * 60 * 60 * 1000
NoTime == 0 - 1

\* Midnight of Fri Jan 02 1970 in the local time zone (taken to be UTC).
T0 == DayMs

\* The instants the clock visits.
Instants ==
  { T0 + 40 * MinuteMs,               \* before every fire time
    T0 + 45 * MinuteMs,               \* fire time of 01:00 with offset 15
    T0 + 60 * MinuteMs,               \* fire time of 01:00 with offset 0
    T0 + 75 * MinuteMs }              \* 01:15 = 00:45 + 30 min

\* The instants the clock visits while the day is planned.
PlanInstants ==
  { T0 + 40 * MinuteMs, T0 + 45 * MinuteMs, T0 + 60 * MinuteMs }

\* The instants the clock visits when the page's store calls are checked.
StoreInstants ==
  Instants \cup { T0 + 45 * MinuteMs + DayAgoMs,        \* 00:45 the next day
                  T0 + 45 * MinuteMs + DayAgoMs + 1 }   \* and just after it

WeekDays == <<"Thu", "Fri", "Sat", "Sun", "Mon", "Tue", "Wed">>

Pad2(n) == IF n < 10 THEN "0" \o ToString(n) ELSE ToString(n)

\* Date.prototype.toDateString of the instant t, for the days of January 1970.
toDateString(t) ==
  LET d == t \div DayMs
  IN  WeekDays[(d % 7) + 1] \o " Jan " \o Pad2(d + 1) \o " 1970"

(***************************************************************************)
(* The time helpers.  A string is the sequence of its characters; a Date   *)
(* is its epoch milliseconds, NoDate for null.                             *)
(***************************************************************************)
HourMs == 60 * 60 * 1000

NoDate == 0 - 1

Digits == <<"0", "1", "2", "3", "4", "5", "6", "7", "8", "9">>

IsDigit(ch) == \E d \in DOMAIN Digits : Digits[d] = ch

DigitValue(ch) == (CHOOSE d \in DOMAIN Digits : Digits[d] = ch) - 1

\* Number.prototype.toString of 0..99
toString(n) ==
  IF n < 10 THEN <<Digits[n + 1]>>
  ELSE <<Digits[(n \div 10) + 1], Digits[(n % 10) + 1]>>

\* String.prototype.padStart(2, '0')
padStart(chars) == IF Len(chars) < 2 THEN <<"0">> \o chars ELSE chars

\* parseInt(digits, 10)
RECURSIVE parseInt(_)
parseInt(digits) ==
  IF digits = << >> THEN 0
  ELSE 10 * parseInt(SubSeq(digits, 1, Len(digits) - 1))
         + DigitValue(digits[Len(digits)])

getHours(date) == (date % DayMs) \div HourMs

getMinutes(date) == (date % HourMs) \div MinuteMs

\* Date.prototype.setHours(hours, minutes, 0, 0)
setHours(date, hours, minutes) ==
  (date \div DayMs) * DayMs + hours * HourMs + minutes * MinuteMs

\* String.prototype.toUpperCase, for the letters of AM and PM
toUpperCase(ch) ==
  CASE ch = "a" -> "A"
    [] ch = "p" -> "P"
    [] ch = "m" -> "M"
    [] OTHER -> ch

RECURSIVE TrimStart(_)
TrimStart(chars) ==
  IF chars # << >> /\ Head(chars) = " " THEN TrimStart(Tail(chars)) ELSE chars

RECURSIVE TrimEnd(_)
TrimEnd(chars) ==
  IF chars # << >> /\ chars[Len(chars)] = " "
  THEN TrimEnd(SubSeq(chars, 1, Len(chars) - 1))
  ELSE chars

\* timeStr.match(/^\s*(\d{1,2}):(\d{2})(?:\s*(AM|PM))?\s*$/i): the groups
\* h, m and ampm, or no match
TimeMatch(timeStr) ==
  LET body == TrimEnd(TrimStart(timeStr))
      colons == { i \in 2..3 : i <= Len(body) /\ body[i] = ":"
                                /\ \A j \in 1..(i - 1) : IsDigit(body[j]) }
  IN  IF colons = {} THEN << >>
      ELSE LET c == CHOOSE i \in colons : TRUE
               rest == TrimStart(SubSeq(body, c + 3, Len(body)))
               ampm == [i \in DOMAIN rest |-> toUpperCase(rest[i])]
           IN  IF /\ Len(body) >= c + 2
                  /\ IsDigit(body[c + 1]) /\ IsDigit(body[c + 2])
                  /\ ampm \in { << >>, <<"A", "M">>, <<"P", "M">> }
               THEN <<[h |-> SubSeq(body, 1, c - 1),
                       m |-> SubSeq(body, c + 1, c + 2),
                       ampm |-> ampm]>>
               ELSE << >>

parseTime(timeStr, date) ==
  LET match == TimeMatch(timeStr)
  IN  IF match = << >> THEN NoDate
      ELSE LET h == parseInt(match[1].h)
               hours == IF match[1].ampm = <<"P", "M">> /\ h < 12 THEN h + 12
                        ELSE IF match[1].ampm = <<"A", "M">> /\ h = 12 THEN 0
                        ELSE h
           IN  setHours(date, hours, parseInt(match[1].m))

\* a formatter without the replacement of hour 0 by 12
formatTimeZeroHour(date, use24Hour) ==
  LET minutes == padStart(toString(getMinutes(date)))
  IN  IF use24Hour
      THEN padStart(toString(getHours(date))) \o <<":">> \o minutes
      ELSE toString(getHours(date) % 12) \o <<":">> \o minutes \o <<" ">>
             \o (IF getHours(date) >= 12 THEN <<"P", "M">> ELSE <<"A", "M">>)

formatTime(date, use24Hour) ==
  LET minutes == padStart(toString(getMinutes(date)))
  IN  IF use24Hour
      THEN padStart(toString(getHours(date))) \o <<":">> \o minutes
      ELSE LET hours == getHours(date) % 12
           IN  toString(IF hours # 0 THEN hours ELSE 12) \o <<":">> \o minutes
                 \o <<" ">>
                 \o (IF getHours(date) >= 12 THEN <<"P", "M">> ELSE <<"A", "M">>)

(***************************************************************************)
(* Configuration, events and preferences.                                  *)
(***************************************************************************)
ConfigCategories == {"reminder", "alert"}

OffsetOptions == {0, 15}

E1 == [id |-> "e1", categoryId |-> "reminder", name |-> "Standup",
       time |-> T0 + 60 * MinuteMs, secondaryTime |-> T0 + 75 * MinuteMs]
E2 == [id |-> "e2", categoryId |-> "alert", name |-> "Deploy",
       time |-> T0 + 60 * MinuteMs, secondaryTime |-> NoTime]
E3 == [id |-> "e3", categoryId |-> "reminder", name |-> "Standup",
       time |-> T0 + 90 * MinuteMs, secondaryTime |-> NoTime]

AllOn == [reminder |-> TRUE, alert |-> TRUE]
AlertOff == [reminder |-> TRUE, alert |-> FALSE]

\* The rebuilds of the page: the events fetched and the preferences in force.
Rebuilds ==
  { [events |-> <<E1, E2>>,
     preferences |-> [categories |-> AllOn, minutesBefore |-> 15,
                      notificationReference |-> "primary"]],
    [events |-> <<E1, E2>>,
     preferences |-> [categories |-> AlertOff, minutesBefore |-> 0,
                      notificationReference |-> "primary"]],
    [events |-> <<E1, E3>>,
     preferences |-> [categories |-> AllOn, minutesBefore |-> 15,
                      notificationReference |-> "secondary"]] }

\* An event of a category that config.categories does not hold.
E4 == [id |-> "e4", categoryId |-> "legacy", name |-> "Sync",
       time |-> T0 + 60 * MinuteMs, secondaryTime |-> NoTime]

\* A late event whose secondary time falls on the next calendar day.
E5 == [id |-> "e5", categoryId |-> "reminder", name |-> "Backup",
       time |-> T0 + 1430 * MinuteMs, secondaryTime |-> T0 + 1450 * MinuteMs]

\* 'alert' has no key; 'legacy' is enabled
ReminderLegacy == [reminder |-> TRUE, legacy |-> TRUE]

\* The event lists of a day, as the event source returns them.
EventLists == { <<E1, E2>>, <<E3, E5>>, <<E4, E2, E1>> }

\* The preferences a user can have saved.
PreferencesSet ==
  { [categories |-> AllOn, minutesBefore |-> 15, notificationReference |-> "primary"],
    [categories |-> AlertOff, minutesBefore |-> 0, notificationReference |-> "primary"],
    [categories |-> AllOn, minutesBefore |-> 15, notificationReference |-> "secondary"],
    [categories |-> ReminderLegacy, minutesBefore |-> 0,
     notificationReference |-> "secondary"] }

\* The user documents of the server: fcmToken, preferences and the
\* date-specific overrides, keyed by day-string and then by category.
U1 == [fcmToken |-> "t1",
       preferences |-> [categories |-> AllOn, minutesBefore |-> 15,
                        notificationReference |-> "primary"],
       dateSpecificOverrides |-> << >>]
U2 == [fcmToken |-> "t2",
       preferences |-> [categories |-> ReminderLegacy, minutesBefore |-> 0,
                        notificationReference |-> "secondary"],
       dateSpecificOverrides |->
         ("Fri Jan 02 1970" :> [reminder |-> FALSE]) @@
         ("Sat Jan 03 1970" :> [alert |-> TRUE])]
U3 == [fcmToken |-> "t3",
       preferences |-> [categories |-> AlertOff, minutesBefore |-> 15,
                        notificationReference |-> "secondary"],
       dateSpecificOverrides |-> ("Fri Jan 02 1970" :> [alert |-> TRUE])]
\* a document without a token
U4 == [fcmToken |-> "",
       preferences |-> [categories |-> AllOn, minutesBefore |-> 0,
                        notificationReference |-> "primary"],
       dateSpecificOverrides |-> << >>]

\* What getAllUsers returns.
UserLists == { << >>, <<U2, U3>>, <<U4, U1>> }

\* What getEventsForDate returns.
DayEventLists == EventLists \cup { << >> }

(***************************************************************************)
(* The notification builder.                                               *)
(***************************************************************************)
buildNotificationId(categoryId, eventName, date, offset) ==
  categoryId \o "_" \o eventName \o "_" \o ToString(offset) \o "_" \o toDateString(date)

\* preferences.categories[event.categoryId], falsy when the key is absent
CategoryEnabled(preferences, categoryId) ==
  /\ categoryId \in DOMAIN preferences.categories
  /\ preferences.categories[categoryId]

BaseTime(event, preferences) ==
  IF preferences.notificationReference = "secondary" /\ event.secondaryTime # NoTime
  THEN event.secondaryTime
  ELSE event.time

NotificationTime(event, preferences) ==
  BaseTime(event, preferences) - preferences.minutesBefore * 60 * 1000

\* eventTimeStr: formatTime(baseTime)
EventTimeStr(event, preferences) == formatTime(BaseTime(event, preferences), FALSE)

\* a loop without the lookup in config.categories
SkippedIgnoringConfig(event, preferences, buildNow) ==
  \/ ~CategoryEnabled(preferences, event.categoryId)
  \/ NotificationTime(event, preferences) < buildNow

\* a loop without the check of the fire time against now
SkippedKeepsPast(event, preferences, buildNow) ==
  \/ ~CategoryEnabled(preferences, event.categoryId)
  \/ event.categoryId \notin ConfigCategories

\* the three 'continue's of the loop
Skipped(event, preferences, buildNow) ==
  \/ ~CategoryEnabled(preferences, event.categoryId)
  \/ event.categoryId \notin ConfigCategories
  \/ NotificationTime(event, preferences) < buildNow

\* an id that takes its date from the base time of the fire time
BuildOneByBaseDate(event, preferences) ==
  [id |-> buildNotificationId(event.categoryId, event.name,
                              BaseTime(event, preferences), preferences.minutesBefore),
   categoryId |-> event.categoryId,
   eventName |-> event.name,
   notificationTime |-> NotificationTime(event, preferences),
   delivered |-> FALSE,
   minutesBefore |-> preferences.minutesBefore]

BuildOne(event, preferences) ==
  [id |-> buildNotificationId(event.categoryId, event.name, event.time,
                              preferences.minutesBefore),
   categoryId |-> event.categoryId,
   eventName |-> event.name,
   notificationTime |-> NotificationTime(event, preferences),
   delivered |-> FALSE,
   minutesBefore |-> preferences.minutesBefore]

RECURSIVE buildScheduledNotifications(_, _, _)
buildScheduledNotifications(events, preferences, buildNow) ==
  IF events = <<>> THEN <<>>
  ELSE LET rest == buildScheduledNotifications(Tail(events), preferences, buildNow)
       IN  IF Skipped(Head(events), preferences, buildNow)
           THEN rest
           ELSE <<BuildOne(Head(events), preferences)>> \o rest

(***************************************************************************)
(* The 'scheduled' object store: a table keyed by id.                      *)
(***************************************************************************)
EmptyTable == << >>

Records(table) == { table[k] : k \in DOMAIN table }

\* IDBObjectStore.put: insert, or replace the record with the same key
Put(table, n) ==
  [k \in DOMAIN table \cup {n.id} |-> IF k = n.id THEN n ELSE table[k]]

\* IDBObjectStore.delete of a set of keys
Delete(table, ids) == [k \in DOMAIN table \ ids |-> table[k]]

\* the sequences that list the records of a set in 'by-time' index order
\* (ascending notificationTime; records with equal times in any order)
ByTime(S) ==
  { s \in [1..Cardinality(S) -> S] :
      /\ \A i, j \in 1..Cardinality(S) : i # j => s[i] # s[j]
      /\ \A i, j \in 1..Cardinality(S) : i < j =>
            s[i].notificationTime <= s[j].notificationTime }

\* the filter with the record due exactly now left out
IsPendingNotYetDue(n, t) ==
  /\ ~n.delivered
  /\ n.notificationTime < t
  /\ n.notificationTime > t - 30 * 60 * 1000

\* the filter with the record exactly 30 minutes old let in
IsPendingInclusive(n, t) ==
  /\ ~n.delivered
  /\ n.notificationTime <= t
  /\ n.notificationTime >= t - 30 * 60 * 1000

\* the filter without its 30-minute bound
IsPendingUnbounded(n, t) ==
  /\ ~n.delivered
  /\ n.notificationTime <= t

\* the filter of getPendingNotifications and of the checker
IsPending(n, t) ==
  /\ ~n.delivered
  /\ n.notificationTime <= t
  /\ n.notificationTime > t - 30 * 60 * 1000

Pending(all, t) == SelectSeq(all, LAMBDA n : IsPending(n, t))

(***************************************************************************)
(* State.                                                                  *)
(***************************************************************************)
VARIABLES
  now,            \* Date.now()
  store,          \* the committed contents of the 'scheduled' object store
  sn,             \* the storeNotifications call of the page and its transaction
  api,            \* the other store call the page has in flight
  chk,            \* the checker runs of the service worker, one per trigger
  push,           \* the push handler and its cancelDeviceNotification call
  shown,          \* the notifications displayed, in order: the path, the tag, and
                  \* 'at', the Date.now() its handler or run read
  counts,         \* operations started and failures injected so far
  everDelivered,  \* history: the ids that have been in the store with delivered=true
  cancelled,      \* history: the ids a cancel has written delivered=true
  build,          \* the last run of buildScheduledNotifications: arguments and result
  sched,          \* the daily scheduler of the server: its pass and the tasks created
  srv,            \* the server: the 'users' collection, the HTTP request in flight,
                  \* the deliveries of the task queue and the pushes sent
  ui,             \* the page: the Firebase module, the hook's state, its calls
  calc,           \* the time helpers: the value at hand and what was computed from it
  sw              \* the globals of the service worker script and its fetch events

vars == <<now, store, sn, api, chk, push, shown, counts, everDelivered, cancelled,
          build, sched, srv, ui, calc, sw>>

Checkers == {"activate", "fetch"}

NoRecord == << >>

IdleSn == [pc |-> "idle", list |-> << >>, i |-> 1, work |-> EmptyTable,
           before |-> EmptyTable, failed |-> FALSE, outcome |-> "none"]

IdleApi == [op |-> "none", pc |-> "idle", id |-> "", t |-> 0, rows |-> {},
            list |-> << >>, got |-> NoRecord, failed |-> FALSE, outcome |-> "none"]

IdleChk == [pc |-> "idle", t |-> 0, rows |-> {}, pending |-> << >>, k |-> 1,
            failed |-> FALSE]

IdlePush == [pc |-> "idle", categoryId |-> "", eventName |-> "", at |-> 0,
             id |-> "", showPending |-> FALSE, cancelPc |-> "done",
             got |-> NoRecord, failed |-> FALSE]

\* no run of the builder
NoRun == [events |-> << >>, preferences |-> << >>, now |-> 0, out |-> << >>,
          from |-> << >>]

NoBuild == [events |-> << >>, preferences |-> << >>, now |-> 0, out |-> << >>,
            from |-> << >>, prev |-> NoRun]

\* the scheduled function has not run; the task queue is empty
IdleSched == [pc |-> "idle", today |-> 0, events |-> << >>, users |-> << >>,
              u |-> 1, e |-> 1, scheduledCount |-> 0, calls |-> << >>,
              tasks |-> << >>, alerts |-> << >>]

\* no HTTP request is being handled; 'payload' is what the handler gives to
\* sendNotification and 'success' what sendNotification returns
IdleReq == [endpoint |-> "none", pc |-> "idle", body |-> << >>, status |-> 0,
            task |-> 0, old |-> << >>, today |-> 0, relevant |-> << >>, i |-> 1,
            calls |-> << >>, payload |-> << >>, success |-> "none"]

\* the collection is empty, no request has arrived, nothing was sent, the
\* queue has completed no task
IdleSrv == [users |-> << >>, req |-> IdleReq, sends |-> << >>, done |-> {}]

\* the calls of initializeFirebase that can be under way together: the one
\* of the hook's mount effect and one more (a second mount, the page itself)
InitCalls == {"mount", "again"}

NoInit == [pc |-> "idle", result |-> "none", app |-> 0, messaging |-> 0]

\* n numbers the calls of togglePush
NoToggle == [pc |-> "idle", enable |-> FALSE, perm |-> "denied", result |-> "none",
             n |-> 0]

\* the page has loaded: nothing initialized, no call made.  fb is the module
\* state of the Firebase initialization (0 for null) with the number of
\* initializeApp calls made; env is what the browser offers, fixed for the
\* page and learnt when the code first asks; browser is
\* Notification.permission; hook is the state of useNotifications; storage
\* is localStorage ("" and 0 for an absent key).  mounted: the hook's owner
\* is mounted; handler: foregroundHandlerRef holds a handler; listeners are
\* the onMessage listeners subscribed, numbered as they are made; unsub is
\* unsubscribeRef (0 for null, else the listener it unsubscribes); setups
\* counts the setupForegroundMessages calls that await their import.
IdleUi == [fb |-> [initialized |-> FALSE, app |-> 0, messaging |-> 0, calls |-> 0],
           mounted |-> TRUE, handler |-> FALSE, listeners |-> {}, unsub |-> 0,
           setups |-> 0, made |-> 0,
           env |-> [serviceWorker |-> "unknown", Notification |-> "unknown"],
           init |-> [c \in InitCalls |-> NoInit],
           browser |-> "default",
           hook |-> [permission |-> "default", isPushEnabled |-> FALSE,
                     isProcessing |-> FALSE],
           storage |-> [pushEnabled |-> "", firstEnabled |-> 0],
           toggle |-> NoToggle]

\* the script has been evaluated: let lastNotificationCheck = 0.  fetches
\* lists the fetch events handled: when, and whether a run was started.
FreshSw == [lastNotificationCheck |-> 0, fetches |-> << >>]

\* no helper has been applied
NoCalc == [pc |-> "idle"]

Init ==
  /\ now = T0 + 40 * MinuteMs
  /\ store = EmptyTable
  /\ sn = IdleSn
  /\ api = IdleApi
  /\ chk = [c \in Checkers |-> IdleChk]
  /\ push = IdlePush
  /\ shown = << >>
  /\ counts = [ops |-> 0, faults |-> 0]
  /\ everDelivered = {}
  /\ cancelled = {}
  /\ build = NoBuild
  /\ sched = IdleSched
  /\ srv = IdleSrv
  /\ ui = IdleUi
  /\ calc = NoCalc
  /\ sw = FreshSw

\* a readwrite transaction of storeNotifications is active
TxActive == sn.pc \in {"put", "commit"}

CanStart == counts.ops < MaxOps

Started == [counts EXCEPT !.ops = @ + 1]

CanFail == counts.faults < MaxFaults

Fault == [counts EXCEPT !.faults = @ + 1]

(***************************************************************************)
(* History: every action records the ids it leaves delivered, and the id   *)
(* written by the put of cancelNotification or cancelDeviceNotification.   *)
(***************************************************************************)
CancelWrote ==
  IF /\ api.op = "cancelNotification" /\ api.pc = "put"
     /\ api'.pc = "done" /\ ~api'.failed
  THEN {api.id}
  ELSE IF push.cancelPc = "put" /\ push'.cancelPc = "done" /\ ~push'.failed
       THEN {push.id}
       ELSE {}

History ==
  /\ everDelivered' =
       everDelivered \cup { id \in DOMAIN store' : store'[id].delivered }
  /\ cancelled' = cancelled \cup CancelWrote

(***************************************************************************)
(* The clock.                                                              *)
(***************************************************************************)
Tick ==
  /\ \E t \in Instants : t > now /\ now' = t
  /\ UNCHANGED <<store, sn, api, chk, push, shown, counts, build, sched, srv, ui, calc, sw>>
  /\ History

TickPlan ==
  /\ \E t \in PlanInstants : t > now /\ now' = t
  /\ UNCHANGED <<store, sn, api, chk, push, shown, counts, build, sched, srv, ui, calc, sw>>
  /\ History

TickStore ==
  /\ \E t \in StoreInstants : t > now /\ now' = t
  /\ UNCHANGED <<store, sn, api, chk, push, shown, counts, build, sched, srv, ui, calc, sw>>
  /\ History

(***************************************************************************)
(* A run of buildScheduledNotifications on the page.  'from' lists, for    *)
(* each record of the result, the event of the loop iteration that pushed  *)
(* it; 'prev' is the run before.  The builder and the scheduler share no   *)
(* state, so a behaviour follows one of the two: the page's runs, or the   *)
(* server's passes.                                                        *)
(***************************************************************************)
\* the events whose iteration reaches notifications.push
Pushed(events, preferences, buildNow) ==
  SelectSeq(events, LAMBDA event : ~Skipped(event, preferences, buildNow))

Build ==
  /\ CanStart
  /\ sched = IdleSched
  /\ \E events \in EventLists, preferences \in PreferencesSet :
       build' = [events |-> events, preferences |-> preferences, now |-> now,
                 out |-> buildScheduledNotifications(events, preferences, now),
                 from |-> Pushed(events, preferences, now),
                 prev |-> [events |-> build.events,
                           preferences |-> build.preferences,
                           now |-> build.now, out |-> build.out,
                           from |-> build.from]]
  /\ counts' = Started
  /\ UNCHANGED <<now, store, sn, api, chk, push, shown, sched, srv, ui, calc, sw>>
  /\ History

(***************************************************************************)
(* scheduleTaskForUser (forceImmediate = false).                           *)
(***************************************************************************)
\* preferences.categories?.[event.categoryId] ?? false
SettingEnabled(preferences, categoryId) ==
  /\ categoryId \in DOMAIN preferences.categories
  /\ preferences.categories[categoryId]

\* dateOverrides?.[dateStr]?.[event.categoryId] !== undefined
OverrideDefined(dateOverrides, dateStr, categoryId) ==
  /\ dateStr \in DOMAIN dateOverrides
  /\ categoryId \in DOMAIN dateOverrides[dateStr]

\* an eligibility that lets a false override fall through to the setting
IsEnabledOrSetting(preferences, dateOverrides, event, baseDate) ==
  \/ SettingEnabled(preferences, event.categoryId)
  \/ /\ OverrideDefined(dateOverrides, toDateString(baseDate), event.categoryId)
     /\ dateOverrides[toDateString(baseDate)][event.categoryId]

IsEnabled(preferences, dateOverrides, event, baseDate) ==
  IF OverrideDefined(dateOverrides, toDateString(baseDate), event.categoryId)
  THEN dateOverrides[toDateString(baseDate)][event.categoryId]
  ELSE SettingEnabled(preferences, event.categoryId)

\* a base time that follows the preference even without a secondary time
SchedBaseTimeNoCheck(event, preferences) ==
  IF preferences.notificationReference = "secondary"
  THEN event.secondaryTime
  ELSE event.time

SchedBaseTime(event, preferences) ==
  IF preferences.notificationReference = "secondary" /\ event.secondaryTime # NoTime
  THEN event.secondaryTime
  ELSE event.time

SchedNotificationTime(event, preferences) ==
  SchedBaseTime(event, preferences) - preferences.minutesBefore * 60 * 1000

\* a display time without the replacement of hour 0 by 12
TimeStrZeroHour(event, preferences) ==
  LET baseTime == SchedBaseTime(event, preferences)
  IN  toString(getHours(baseTime) % 12) \o <<":">>
        \o padStart(toString(getMinutes(baseTime))) \o <<" ">>
        \o (IF getHours(baseTime) >= 12 THEN <<"P", "M">> ELSE <<"A", "M">>)

\* `${displayHours}:${minutes} ${period}`
TimeStr(event, preferences) ==
  LET baseTime == SchedBaseTime(event, preferences)
      hours == getHours(baseTime)
      minutes == padStart(toString(getMinutes(baseTime)))
      period == IF hours >= 12 THEN <<"P", "M">> ELSE <<"A", "M">>
      displayHours == IF hours % 12 # 0 THEN hours % 12 ELSE 12
  IN  toString(displayHours) \o <<":">> \o minutes \o <<" ">> \o period

\* the Cloud Task: the payload of its request and its scheduleTime; eventId,
\* the event it was built for, is not part of the task
Task(fcmToken, event, preferences) ==
  [eventId |-> event.id,
   fcmToken |-> fcmToken, categoryId |-> event.categoryId,
   eventName |-> event.name, timeStr |-> TimeStr(event, preferences),
   minutesBefore |-> preferences.minutesBefore,
   seconds |-> SchedNotificationTime(event, preferences) \div 1000]

\* a call without the check of the fire time against Date.now()
EarlyReturnKeepsPast(preferences, dateOverrides, event, baseDate, callNow) ==
  IF ~IsEnabled(preferences, dateOverrides, event, baseDate) THEN "disabled"
  ELSE "none"

\* where a call leaves scheduleTaskForUser before it creates a task
EarlyReturn(preferences, dateOverrides, event, baseDate, callNow) ==
  IF ~IsEnabled(preferences, dateOverrides, event, baseDate) THEN "disabled"
  ELSE IF SchedNotificationTime(event, preferences) < callNow THEN "passed"
  ELSE "none"

(***************************************************************************)
(* createDailyScheduler: the scheduled function.  'calls' lists the calls  *)
(* of scheduleTaskForUser the pass has made: user, event, the Date.now()   *)
(* of the call, where it returned, and the task it built; 'tasks' is the   *)
(* Cloud Tasks queue.                                                      *)
(***************************************************************************)
\* the loops move on: next event, next user, or the end of the pass
Advance(s) ==
  IF s.e < Len(s.events) THEN [s EXCEPT !.e = @ + 1, !.pc = "loop"]
  ELSE IF s.u < Len(s.users) THEN [s EXCEPT !.u = @ + 1, !.e = 1, !.pc = "loop"]
  ELSE [s EXCEPT !.pc = "finish"]

\* if (!fcmToken || !preferences)
Unusable(user) == user.fcmToken = "" \/ user.preferences = << >>

\* the function is triggered: today = new Date()
SchedStart ==
  /\ sched.pc \in {"idle", "done"}
  /\ CanStart
  /\ build = NoBuild
  /\ srv.req.pc \in {"idle", "done"}
  /\ sched' = [IdleSched EXCEPT !.pc = "events", !.today = now,
                                !.tasks = sched.tasks, !.alerts = sched.alerts]
  /\ counts' = Started
  /\ UNCHANGED <<now, store, sn, api, chk, push, shown, build, srv, ui, calc, sw>>
  /\ History

\* eventSource.getEventsForDate(today) resolves
SchedEvents ==
  /\ sched.pc = "events"
  /\ \E events \in DayEventLists :
       sched' = IF events = << >>
                THEN [sched EXCEPT !.pc = "done",
                                   !.alerts = Append(@, "No Events Found")]
                ELSE [sched EXCEPT !.pc = "users", !.events = events]
  /\ UNCHANGED <<now, store, sn, api, chk, push, shown, counts, build, srv, ui, calc, sw>>
  /\ History

\* getAllUsers() resolves
SchedUsers ==
  /\ sched.pc = "users"
  /\ \E users \in UserLists :
       sched' = IF users = << >>
                THEN [sched EXCEPT !.pc = "done"]
                ELSE [sched EXCEPT !.pc = "loop", !.users = users, !.u = 1, !.e = 1]
  /\ UNCHANGED <<now, store, sn, api, chk, push, shown, counts, build, srv, ui, calc, sw>>
  /\ History

\* a user document without token or preferences: continue
SchedSkipUser ==
  /\ sched.pc = "loop"
  /\ Unusable(sched.users[sched.u])
  /\ sched' = IF sched.u < Len(sched.users)
              THEN [sched EXCEPT !.u = @ + 1, !.e = 1]
              ELSE [sched EXCEPT !.pc = "finish"]
  /\ UNCHANGED <<now, store, sn, api, chk, push, shown, counts, build, srv, ui, calc, sw>>
  /\ History

\* scheduleTaskForUser runs up to its return false or to createTask
SchedCall ==
  /\ sched.pc = "loop"
  /\ ~Unusable(sched.users[sched.u])
  /\ LET user == sched.users[sched.u]
         event == sched.events[sched.e]
         early == EarlyReturn(user.preferences, user.dateSpecificOverrides,
                              event, sched.today, now)
         call == [u |-> sched.u, e |-> sched.e, at |-> now, outcome |-> early,
                  task |-> IF early # "none" THEN << >>
                           ELSE <<Task(user.fcmToken, event, user.preferences)>>]
     IN  sched' = IF early # "none"
                  THEN Advance([sched EXCEPT !.calls = Append(@, call)])
                  ELSE [sched EXCEPT !.pc = "create", !.calls = Append(@, call)]
  /\ UNCHANGED <<now, store, sn, api, chk, push, shown, counts, build, srv, ui, calc, sw>>
  /\ History

\* a pass that stops at the first failed call
Aborted(s) == [s EXCEPT !.pc = "finish"]

\* the catch block of scheduleTaskForUser returns false: the loop goes on
Caught(s) == Advance(s)

\* tasksClient.createTask resolves: return true, scheduledCount++
SchedCreated ==
  /\ sched.pc = "create"
  /\ sched' = Advance([sched EXCEPT
                 !.calls[Len(sched.calls)].outcome = "scheduled",
                 !.tasks = Append(@, sched.calls[Len(sched.calls)].task[1]),
                 !.scheduledCount = @ + 1])
  /\ UNCHANGED <<now, store, sn, api, chk, push, shown, counts, build, srv, ui, calc, sw>>
  /\ History

\* tasksClient.createTask rejects: the catch block logs and returns false
SchedCreateFail ==
  /\ CanFail
  /\ sched.pc = "create"
  /\ sched' = Caught([sched EXCEPT
                 !.calls[Len(sched.calls)].outcome = "failed"])
  /\ counts' = Fault
  /\ UNCHANGED <<now, store, sn, api, chk, push, shown, build, srv, ui, calc, sw>>
  /\ History

\* an end of the loops that only logs the count
SchedFinishSilent ==
  /\ sched.pc = "finish"
  /\ sched' = [sched EXCEPT !.pc = "done"]
  /\ UNCHANGED <<now, store, sn, api, chk, push, shown, counts, build, srv, ui, calc, sw>>
  /\ History

\* the loops are over: the alert when nothing was scheduled
SchedFinish ==
  /\ sched.pc = "finish"
  /\ sched' = [sched EXCEPT !.pc = "done",
                 !.alerts = IF sched.scheduledCount = 0
                            THEN Append(@, "Zero Notifications Scheduled")
                            ELSE @]
  /\ UNCHANGED <<now, store, sn, api, chk, push, shown, counts, build, srv, ui, calc, sw>>
  /\ History

\* getEventsForDate or getAllUsers rejects: the catch block of the function
SchedThrow ==
  /\ CanFail
  /\ sched.pc \in {"events", "users"}
  /\ sched' = [sched EXCEPT !.pc = "done",
                            !.alerts = Append(@, "Scheduler Failed")]
  /\ counts' = Fault
  /\ UNCHANGED <<now, store, sn, api, chk, push, shown, build, srv, ui, calc, sw>>
  /\ History

(***************************************************************************)
(* The 'users' collection of Firestore.  A document holds fcmToken,        *)
(* preferences and dateSpecificOverrides (absent: "" and << >>), and       *)
(* 'fields', the other top-level fields it has by their literal names.     *)
(* set(data, {merge: true}) replaces the leaves data names and keeps every *)
(* other field of the document; an empty map in data is a leaf.            *)
(***************************************************************************)
NoDoc == [fcmToken |-> "", preferences |-> << >>, dateSpecificOverrides |-> << >>,
          fields |-> << >>]

DocOf(users, token) == IF token \in DOMAIN users THEN users[token] ELSE NoDoc

\* the merge of a map of leaves
MergeMap(old, new) ==
  IF DOMAIN new = {} THEN new
  ELSE [k \in DOMAIN old \cup DOMAIN new |->
          IF k \in DOMAIN new THEN new[k] ELSE old[k]]

\* the merge of a map of maps of leaves
MergeMaps(old, new) ==
  IF DOMAIN new = {} THEN new
  ELSE [k \in DOMAIN old \cup DOMAIN new |->
          IF k \notin DOMAIN new THEN old[k]
          ELSE IF k \notin DOMAIN old THEN new[k]
          ELSE MergeMap(old[k], new[k])]

MergePreferences(old, new) ==
  IF DOMAIN old = {} THEN new
  ELSE [categories |-> MergeMap(old.categories, new.categories),
        minutesBefore |-> new.minutesBefore,
        notificationReference |-> new.notificationReference]

\* saveUserPreferences(token, preferences, dateOverrides)
saveUserPreferences(users, token, preferences, dateOverrides) ==
  LET doc == DocOf(users, token)
  IN  (token :> [doc EXCEPT
         !.fcmToken = token,
         !.preferences = MergePreferences(doc.preferences, preferences),
         !.dateSpecificOverrides = MergeMaps(doc.dateSpecificOverrides, dateOverrides)])
      @@ users

\* updateCategorySubscription(token, categoryId, enabled): set() takes the
\* key `preferences.categories.${categoryId}` as the name of one field
updateCategorySubscription(users, token, categoryId, enabled) ==
  LET doc == DocOf(users, token)
      name == "preferences.categories." \o categoryId
  IN  (token :> [doc EXCEPT !.fields = (name :> enabled) @@ doc.fields]) @@ users

\* deleteUser(token)
deleteUser(users, token) == [t \in DOMAIN users \ {token} |-> users[t]]

\* the document ids, in the order of a collection read
TokenOrder == <<"t1">>

\* getAllUsers(): the data of the documents
getAllUsers(users) ==
  LET ids == SelectSeq(TokenOrder, LAMBDA token : token \in DOMAIN users)
  IN  [i \in DOMAIN ids |->
         [fcmToken |-> users[ids[i]].fcmToken,
          preferences |-> users[ids[i]].preferences,
          dateSpecificOverrides |-> users[ids[i]].dateSpecificOverrides]]

(***************************************************************************)
(* The HTTP endpoints.  A field of a request body is << >> when the body   *)
(* does not have it and <<value>> when it does.  One request is handled at *)
(* a time; its awaits are step boundaries.                                 *)
(***************************************************************************)
P15 == [categories |-> AllOn, minutesBefore |-> 15, notificationReference |-> "primary"]

P0 == [categories |-> AlertOff, minutesBefore |-> 0, notificationReference |-> "primary"]

SyncBodies ==
  { [token |-> token, preferences |-> preferences, dateOverrides |-> << >>] :
      token \in { << >>, <<"t1">> }, preferences \in { << >>, <<P15>>, <<P0>> } }

ManageBodies ==
  { [token |-> token, categoryId |-> categoryId, enabled |-> enabled] :
      token \in { << >>, <<"t1">> }, categoryId \in { << >>, <<"alert">> },
      enabled \in { << >>, <<TRUE>>, <<FALSE>> } }

FullSend == [fcmToken |-> <<"t1">>, categoryId |-> <<"reminder">>,
             eventName |-> <<"Standup">>,
             timeStr |-> << <<"1", ":", "0", "0", " ", "A", "M">> >>,
             minutesBefore |-> <<15>>]

\* the full body, and the bodies that lack one of its fields
SendBodies ==
  { FullSend } \cup { [FullSend EXCEPT ![f] = << >>] : f \in DOMAIN FullSend }

TestBodies == { [token |-> token] : token \in { << >>, <<"t1">> } }

\* !value, for a string field
Not(field) == field = << >> \/ field[1] = ""

\* value || default
Or(field, default) == IF field = << >> THEN default ELSE field[1]

\* the handlers of the server are taken one at a time: a request is handled
\* when no other is and no daily pass is under way
ReqFree == srv.req.pc \in {"idle", "done"} /\ sched.pc \in {"idle", "done"} /\ CanStart

\* res.status(status).send(...)
Respond(req, status) == [req EXCEPT !.pc = "done", !.status = status]

\* the queue has its answer: a 2xx completes the task
Answered(s) ==
  IF s.req.pc = "done" /\ s.req.task # 0 /\ s.req.status = 200
  THEN [s EXCEPT !.done = @ \cup {s.req.task}]
  ELSE s

(***************************************************************************)
(* syncUserPreferences                                                     *)
(***************************************************************************)
\* a filter that forgets the old preferences
NewlyEnabledAll(newCategories, oldCategories) ==
  { catId \in DOMAIN newCategories : newCategories[catId] }

\* newCategories[catId] && !oldCategories[catId]
NewlyEnabled(newCategories, oldCategories) ==
  { catId \in DOMAIN newCategories :
      newCategories[catId] /\ ~(catId \in DOMAIN oldCategories /\ oldCategories[catId]) }

SyncArrive ==
  /\ ReqFree
  /\ \E body \in SyncBodies :
       LET req == [IdleReq EXCEPT !.endpoint = "syncUserPreferences", !.body = body]
       IN  srv' = [srv EXCEPT !.req =
                     IF Not(body.token) \/ body.preferences = << >>
                     THEN Respond(req, 400)
                     ELSE [req EXCEPT !.pc = "get"]]
  /\ counts' = Started
  /\ UNCHANGED <<now, store, sn, api, chk, push, shown, build, sched, ui, calc, sw>>
  /\ History

\* userRef.get() resolves: oldPrefs
SyncGet ==
  /\ srv.req.endpoint = "syncUserPreferences" /\ srv.req.pc = "get"
  /\ LET oldPrefs == DocOf(srv.users, srv.req.body.token[1]).preferences
     IN  srv' = [srv EXCEPT !.req.pc = "save",
                            !.req.old = IF DOMAIN oldPrefs = {} THEN << >>
                                        ELSE oldPrefs.categories]
  /\ UNCHANGED <<now, store, sn, api, chk, push, shown, counts, build, sched, ui, calc, sw>>
  /\ History

\* saveUserPreferences resolves; the newly enabled categories are computed
SyncSave ==
  /\ srv.req.endpoint = "syncUserPreferences" /\ srv.req.pc = "save"
  /\ LET body == srv.req.body
         users == saveUserPreferences(srv.users, body.token[1], body.preferences[1],
                                      Or(body.dateOverrides, << >>))
         newlyEnabled == NewlyEnabled(body.preferences[1].categories, srv.req.old)
     IN  srv' = [srv EXCEPT !.users = users,
                            !.req = IF newlyEnabled = {}
                                    THEN Respond(@, 200)
                                    ELSE [@ EXCEPT !.pc = "events", !.today = now]]
  /\ UNCHANGED <<now, store, sn, api, chk, push, shown, counts, build, sched, ui, calc, sw>>
  /\ History

\* the sync goes on with the next relevant event, or answers
SyncAdvance(req) ==
  IF req.i < Len(req.relevant) THEN [req EXCEPT !.i = @ + 1, !.pc = "call"]
  ELSE Respond(req, 200)

\* eventSource.getEventsForDate(today) resolves: relevantEvents
SyncEvents ==
  /\ srv.req.endpoint = "syncUserPreferences" /\ srv.req.pc = "events"
  /\ \E events \in DayEventLists :
       LET newlyEnabled == NewlyEnabled(srv.req.body.preferences[1].categories,
                                        srv.req.old)
           relevantEvents == SelectSeq(events, LAMBDA e : e.categoryId \in newlyEnabled)
       IN  srv' = [srv EXCEPT !.req =
                     IF relevantEvents = << >>
                     THEN Respond(@, 200)
                     ELSE [@ EXCEPT !.pc = "call", !.relevant = relevantEvents,
                                    !.i = 1]]
  /\ UNCHANGED <<now, store, sn, api, chk, push, shown, counts, build, sched, ui, calc, sw>>
  /\ History

\* scheduleTaskForUser(..., token, preferences, event, today, dateOverrides, false)
\* runs up to its return false or to createTask
SyncCall ==
  /\ srv.req.endpoint = "syncUserPreferences" /\ srv.req.pc = "call"
  /\ LET body == srv.req.body
         event == srv.req.relevant[srv.req.i]
         early == EarlyReturn(body.preferences[1], Or(body.dateOverrides, << >>),
                              event, srv.req.today, now)
         call == [e |-> srv.req.i, at |-> now, outcome |-> early,
                  task |-> IF early # "none" THEN << >>
                           ELSE <<Task(body.token[1], event, body.preferences[1])>>]
         req == [srv.req EXCEPT !.calls = Append(@, call)]
     IN  srv' = [srv EXCEPT !.req = IF early # "none" THEN SyncAdvance(req)
                                    ELSE [req EXCEPT !.pc = "create"]]
  /\ UNCHANGED <<now, store, sn, api, chk, push, shown, counts, build, sched, ui, calc, sw>>
  /\ History

\* tasksClient.createTask resolves
SyncCreated ==
  /\ srv.req.endpoint = "syncUserPreferences" /\ srv.req.pc = "create"
  /\ srv' = [srv EXCEPT !.req = SyncAdvance(
                [@ EXCEPT !.calls[Len(srv.req.calls)].outcome = "scheduled"])]
  /\ sched' = [sched EXCEPT
                 !.tasks = Append(@, srv.req.calls[Len(srv.req.calls)].task[1])]
  /\ UNCHANGED <<now, store, sn, api, chk, push, shown, counts, build, ui, calc, sw>>
  /\ History

\* tasksClient.createTask rejects: scheduleTaskForUser returns false
SyncCreateFail ==
  /\ CanFail
  /\ srv.req.endpoint = "syncUserPreferences" /\ srv.req.pc = "create"
  /\ srv' = [srv EXCEPT !.req = SyncAdvance(
                [@ EXCEPT !.calls[Len(srv.req.calls)].outcome = "failed"])]
  /\ counts' = Fault
  /\ UNCHANGED <<now, store, sn, api, chk, push, shown, build, sched, ui, calc, sw>>
  /\ History

(***************************************************************************)
(* manageCategorySubscription                                              *)
(***************************************************************************)
ManageArrive ==
  /\ ReqFree
  /\ \E body \in ManageBodies :
       LET req == [IdleReq EXCEPT !.endpoint = "manageCategorySubscription",
                                  !.body = body]
       IN  srv' = [srv EXCEPT !.req =
                     IF Not(body.token) \/ Not(body.categoryId) \/ body.enabled = << >>
                     THEN Respond(req, 400)
                     ELSE [req EXCEPT !.pc = "update"]]
  /\ counts' = Started
  /\ UNCHANGED <<now, store, sn, api, chk, push, shown, build, sched, ui, calc, sw>>
  /\ History

\* updateCategorySubscription resolves
ManageUpdate ==
  /\ srv.req.endpoint = "manageCategorySubscription" /\ srv.req.pc = "update"
  /\ LET body == srv.req.body
     IN  srv' = [srv EXCEPT
                   !.users = updateCategorySubscription(
                               @, body.token[1], body.categoryId[1], body.enabled[1]),
                   !.req = Respond(@, 200)]
  /\ UNCHANGED <<now, store, sn, api, chk, push, shown, counts, build, sched, ui, calc, sw>>
  /\ History

\* an awaited call of the handler rejects: the catch block answers 500
ReqThrow ==
  /\ CanFail
  /\ srv.req.pc \in {"get", "save", "events", "update"}
  /\ srv' = [srv EXCEPT !.req = Respond(@, 500)]
  /\ counts' = Fault
  /\ UNCHANGED <<now, store, sn, api, chk, push, shown, build, sched, ui, calc, sw>>
  /\ History

(***************************************************************************)
(* sendUserNotification and sendNotification                               *)
(***************************************************************************)
\* what messaging.send does: it resolves, or rejects with error.code
SendOutcomes ==
  {"sent", "messaging/registration-token-not-registered",
   "messaging/invalid-registration-token", "messaging/internal-error"}

\* a handler that takes every rejected send for a dead token
TokenRejectedAlways(code) == code # "sent"

\* the error codes on which sendNotification removes the token
TokenRejected(code) ==
  code \in {"messaging/registration-token-not-registered",
            "messaging/invalid-registration-token"}

\* if (!fcmToken || !eventName)
SendMissing(body) == Not(body.fcmToken) \/ Not(body.eventName)

\* the request reaches the handler: the check of the body, then the payload
\* given to sendNotification
SendBegin(body, task) ==
  LET req == [IdleReq EXCEPT !.endpoint = "sendUserNotification", !.body = body,
                             !.task = task]
  IN  IF SendMissing(body) THEN Respond(req, 400)
      ELSE [req EXCEPT !.pc = "send",
              !.payload = [fcmToken |-> body.fcmToken[1],
                           categoryId |-> Or(body.categoryId, "default"),
                           eventName |-> body.eventName[1],
                           timeStr |-> Or(body.timeStr, << >>),
                           minutesBefore |-> Or(body.minutesBefore, 0)]]

\* a request that does not come from the queue
SendArrive ==
  /\ ReqFree
  /\ \E body \in SendBodies : srv' = [srv EXCEPT !.req = SendBegin(body, 0)]
  /\ counts' = Started
  /\ UNCHANGED <<now, store, sn, api, chk, push, shown, build, sched, ui, calc, sw>>
  /\ History

\* the body of the task's request
TaskBody(task) ==
  [fcmToken |-> <<task.fcmToken>>, categoryId |-> <<task.categoryId>>,
   eventName |-> <<task.eventName>>, timeStr |-> <<task.timeStr>>,
   minutesBefore |-> <<task.minutesBefore>>]

\* Cloud Tasks delivers a task of the queue whose scheduleTime has come and
\* that has not been answered with a 2xx yet
QueueDeliver ==
  /\ ReqFree
  /\ \E k \in DOMAIN sched.tasks :
       /\ k \notin srv.done
       /\ sched.tasks[k].seconds * 1000 <= now
       /\ srv' = [srv EXCEPT !.req = SendBegin(TaskBody(sched.tasks[k]), k)]
  /\ counts' = Started
  /\ UNCHANGED <<now, store, sn, api, chk, push, shown, build, sched, ui, calc, sw>>
  /\ History

\* messaging.send resolves: return true, 200
SendSent ==
  /\ srv.req.endpoint = "sendUserNotification" /\ srv.req.pc = "send"
  /\ srv' = Answered([srv EXCEPT
               !.sends = Append(@, [task |-> srv.req.task,
                                    token |-> srv.req.payload.fcmToken,
                                    outcome |-> "sent"]),
               !.req = Respond([@ EXCEPT !.success = "true"], 200)])
  /\ UNCHANGED <<now, store, sn, api, chk, push, shown, counts, build, sched, ui, calc, sw>>
  /\ History

\* messaging.send rejects: deleteUser for a rejected token, else return false
SendRejected ==
  /\ CanFail
  /\ srv.req.endpoint = "sendUserNotification" /\ srv.req.pc = "send"
  /\ \E code \in SendOutcomes \ {"sent"} :
       srv' = [srv EXCEPT
                 !.sends = Append(@, [task |-> srv.req.task,
                                      token |-> srv.req.payload.fcmToken,
                                      outcome |-> code]),
                 !.req = IF TokenRejected(code) THEN [@ EXCEPT !.pc = "delete"]
                         ELSE Respond([@ EXCEPT !.success = "false"], 500)]
  /\ counts' = Fault
  /\ UNCHANGED <<now, store, sn, api, chk, push, shown, build, sched, ui, calc, sw>>
  /\ History

\* deleteUser resolves; sendNotification returns false: 500
SendDelete ==
  /\ srv.req.endpoint = "sendUserNotification" /\ srv.req.pc = "delete"
  /\ srv' = [srv EXCEPT !.users = deleteUser(@, srv.req.payload.fcmToken),
                        !.req = Respond([@ EXCEPT !.success = "false"], 500)]
  /\ UNCHANGED <<now, store, sn, api, chk, push, shown, counts, build, sched, ui, calc, sw>>
  /\ History

\* deleteUser rejects: caught and logged; sendNotification returns false: 500
SendDeleteFail ==
  /\ srv.req.endpoint = "sendUserNotification" /\ srv.req.pc = "delete"
  /\ srv' = [srv EXCEPT !.req = Respond([@ EXCEPT !.success = "false"], 500)]
  /\ UNCHANGED <<now, store, sn, api, chk, push, shown, counts, build, sched, ui, calc, sw>>
  /\ History

(***************************************************************************)
(* sendTestPush                                                            *)
(***************************************************************************)
TestArrive ==
  /\ ReqFree
  /\ \E body \in TestBodies :
       LET req == [IdleReq EXCEPT !.endpoint = "sendTestPush", !.body = body]
       IN  srv' = [srv EXCEPT !.req = IF Not(body.token) THEN Respond(req, 400)
                                      ELSE [req EXCEPT !.pc = "send"]]
  /\ counts' = Started
  /\ UNCHANGED <<now, store, sn, api, chk, push, shown, build, sched, ui, calc, sw>>
  /\ History

\* messaging.send resolves (200) or rejects (500)
TestSend ==
  /\ srv.req.endpoint = "sendTestPush" /\ srv.req.pc = "send"
  /\ \E outcome \in {"sent", "messaging/internal-error"} :
       srv' = [srv EXCEPT
                 !.sends = Append(@, [task |-> 0, token |-> srv.req.body.token[1],
                                      outcome |-> outcome]),
                 !.req = Respond(@, IF outcome = "sent" THEN 200 ELSE 500)]
  /\ UNCHANGED <<now, store, sn, api, chk, push, shown, counts, build, sched, ui, calc, sw>>
  /\ History

(***************************************************************************)
(* The daily pass over the documents of the collection.                    *)
(***************************************************************************)
\* getAllUsers() resolves with the documents stored
SchedUsersStored ==
  /\ sched.pc = "users"
  /\ LET users == getAllUsers(srv.users)
     IN  sched' = IF users = << >>
                  THEN [sched EXCEPT !.pc = "done"]
                  ELSE [sched EXCEPT !.pc = "loop", !.users = users, !.u = 1, !.e = 1]
  /\ UNCHANGED <<now, store, sn, api, chk, push, shown, counts, build, srv, ui, calc, sw>>
  /\ History

(***************************************************************************)
(* initializeFirebase(config).  The SDK's initializeApp creates the app    *)
(* (instance 1) on its first call; called again with the same options it   *)
(* returns that app or throws app/duplicate-app, depending on the SDK.     *)
(***************************************************************************)
\* the call begins: the check of 'initialized', then the required keys
InitBegin(c) ==
  /\ CanStart
  /\ ui.init[c].pc \in {"idle", "done"}
  /\ \E complete \in BOOLEAN :
       ui' = [ui EXCEPT !.init[c] =
                IF ui.fb.initialized
                THEN [pc |-> "done", result |-> "returned",
                      app |-> ui.fb.app, messaging |-> ui.fb.messaging]
                ELSE IF ~complete
                THEN [NoInit EXCEPT !.pc = "done", !.result = "threw"]
                ELSE [NoInit EXCEPT !.pc = "import"]]
  /\ counts' = Started
  /\ UNCHANGED <<now, store, sn, api, chk, push, shown, build, sched, srv, calc, sw>>
  /\ History

\* 'name' in window / in navigator
Has(name, answer) == ui.env[name] \in {"unknown", answer}

\* the imports resolve; initializeApp, getMessaging, initialized = true
InitApp(c) ==
  /\ ui.init[c].pc = "import"
  /\ \E duplicate \in BOOLEAN, worker \in {"yes", "no"} :
       /\ duplicate => ui.fb.calls > 0
       /\ ~duplicate => Has("serviceWorker", worker)
       /\ ui' = IF duplicate
                THEN [ui EXCEPT !.fb.calls = @ + 1,
                                !.init[c] = [NoInit EXCEPT !.pc = "done",
                                                           !.result = "threw"]]
                ELSE LET messaging == IF worker = "yes" THEN 1 ELSE ui.fb.messaging
                     IN  [ui EXCEPT
                            !.env.serviceWorker = worker,
                            !.fb = [initialized |-> TRUE, app |-> 1,
                                    messaging |-> messaging, calls |-> @.calls + 1],
                            !.init[c] = [pc |-> "done", result |-> "returned",
                                         app |-> 1, messaging |-> messaging]]
  /\ UNCHANGED <<now, store, sn, api, chk, push, shown, counts, build, sched, srv, calc, sw>>
  /\ History

\* an import rejects, or getMessaging throws on the app that initializeApp
\* has returned: logged, rethrown
InitFail(c) ==
  /\ CanFail
  /\ ui.init[c].pc = "import"
  /\ \E imported \in BOOLEAN :
       /\ imported => Has("serviceWorker", "yes")
       /\ ui' = IF imported
                THEN [ui EXCEPT !.env.serviceWorker = "yes",
                                !.fb.app = 1, !.fb.calls = @ + 1,
                                !.init[c] = [NoInit EXCEPT !.pc = "done",
                                                           !.result = "threw"]]
                ELSE [ui EXCEPT !.init[c] = [NoInit EXCEPT !.pc = "done",
                                                           !.result = "threw"]]
  /\ counts' = Fault
  /\ UNCHANGED <<now, store, sn, api, chk, push, shown, build, sched, srv, calc, sw>>
  /\ History

(***************************************************************************)
(* togglePush(enable) of useNotifications.                                 *)
(***************************************************************************)
Permissions == {"default", "granted", "denied"}

\* a catch block that lets the error through
ToggleRethrown(toggle) == [toggle EXCEPT !.pc = "done", !.result = "rejected"]

\* catch: showStatus(err.message), return false
ToggleCaught(toggle) == [toggle EXCEPT !.pc = "done", !.result = "false"]

\* finally: setIsProcessing(false)
Finally(hook) == [hook EXCEPT !.isProcessing = FALSE]

\* setPermission(perm); a permission that is not granted is thrown
ToggleChecked(u, perm) ==
  IF perm # "granted"
  THEN [u EXCEPT !.hook = Finally([@ EXCEPT !.permission = perm]),
                 !.toggle = ToggleCaught([@ EXCEPT !.perm = perm])]
  ELSE [u EXCEPT !.hook.permission = perm,
                 !.toggle = [@ EXCEPT !.perm = perm, !.pc = "token"]]

\* the effect on isPushEnabled, run after the render in which it has become
\* true: with a handler registered, setupForegroundMessages is called; it
\* throws at once when Firebase or messaging is missing, else it awaits its
\* import
PushEffect(before, u) ==
  IF /\ u.mounted
     /\ u.hook.isPushEnabled /\ ~before.hook.isPushEnabled
     /\ u.handler
     /\ u.fb.initialized /\ u.fb.messaging # 0
  THEN [u EXCEPT !.setups = @ + 1]
  ELSE u

\* the import resolves: onMessage subscribes a listener, and the 'then' of
\* the effect puts its unsubscribe function into unsubscribeRef
SetupResolve ==
  /\ ui.setups > 0
  /\ ui' = [ui EXCEPT !.setups = @ - 1, !.made = @ + 1,
                      !.listeners = @ \cup {ui.made + 1},
                      !.unsub = ui.made + 1]
  /\ UNCHANGED <<now, store, sn, api, chk, push, shown, counts, build, sched, srv, calc, sw>>
  /\ History

\* the import rejects: the 'catch' of the effect logs
SetupFail ==
  /\ CanFail
  /\ ui.setups > 0
  /\ ui' = [ui EXCEPT !.setups = @ - 1]
  /\ counts' = Fault
  /\ UNCHANGED <<now, store, sn, api, chk, push, shown, build, sched, srv, calc, sw>>
  /\ History

\* onForegroundMessage(handler)
OnForegroundMessage ==
  /\ ui.mounted /\ ~ui.handler
  /\ ui' = [ui EXCEPT !.handler = TRUE]
  /\ UNCHANGED <<now, store, sn, api, chk, push, shown, counts, build, sched, srv, calc, sw>>
  /\ History

\* the owner unmounts: the cleanup of the mount effect calls
\* unsubscribeRef.current, if there is one
Unmount ==
  /\ ui.mounted
  /\ ui' = [ui EXCEPT !.mounted = FALSE, !.listeners = @ \ {ui.unsub}]
  /\ UNCHANGED <<now, store, sn, api, chk, push, shown, counts, build, sched, srv, calc, sw>>
  /\ History

\* the call begins: setIsProcessing(true); disabling ends at once
ToggleBegin ==
  /\ CanStart
  /\ ui.mounted
  /\ ui.toggle.pc \in {"idle", "done"}
  /\ \E enable \in BOOLEAN, supported \in {"yes", "no"} :
       LET toggle == [NoToggle EXCEPT !.enable = enable, !.n = ui.toggle.n + 1]
           u == [ui EXCEPT !.hook.isProcessing = TRUE,
                           !.env.Notification = IF enable THEN supported ELSE @]
       IN  /\ enable => Has("Notification", supported)
           /\ ~enable => supported = "yes"
           /\ ui' =
                 IF ~enable
                 THEN [u EXCEPT
                         !.storage.pushEnabled = "false",
                         !.hook = Finally([@ EXCEPT !.isPushEnabled = FALSE]),
                         !.toggle = [toggle EXCEPT !.pc = "done", !.result = "true"]]
                 ELSE IF supported = "no"
                 THEN ToggleChecked([u EXCEPT !.toggle = toggle], "denied")
                 ELSE IF ui.browser = "default"
                 THEN [u EXCEPT !.toggle = [toggle EXCEPT !.pc = "request",
                                                          !.perm = "default"]]
                 ELSE IF ui.browser # "granted"
                 THEN [u EXCEPT !.toggle = [toggle EXCEPT !.pc = "delay",
                                                          !.perm = ui.browser]]
                 ELSE ToggleChecked([u EXCEPT !.toggle = toggle], "granted")
  /\ counts' = Started
  /\ UNCHANGED <<now, store, sn, api, chk, push, shown, build, sched, srv, calc, sw>>
  /\ History

\* togglePush(false) whose localStorage.setItem throws
ToggleDisableFail ==
  /\ CanStart /\ CanFail
  /\ ui.mounted
  /\ ui.toggle.pc \in {"idle", "done"}
  /\ ui' = [ui EXCEPT !.hook = Finally([@ EXCEPT !.isProcessing = TRUE]),
                      !.toggle = ToggleCaught([NoToggle EXCEPT !.n = ui.toggle.n + 1])]
  /\ counts' = [Fault EXCEPT !.ops = @ + 1]
  /\ UNCHANGED <<now, store, sn, api, chk, push, shown, build, sched, srv, calc, sw>>
  /\ History

\* Notification.requestPermission() resolves: the user has answered the
\* prompt; the value returned may lag behind the permission
ToggleRequest ==
  /\ ui.toggle.pc = "request"
  /\ \E answer \in Permissions, perm \in Permissions :
       /\ perm \in {answer, "default"}
       /\ LET u == [ui EXCEPT !.browser = answer]
          IN  ui' = IF perm # "granted"
                    THEN [u EXCEPT !.toggle = [@ EXCEPT !.pc = "delay", !.perm = perm]]
                    ELSE ToggleChecked(u, perm)
  /\ UNCHANGED <<now, store, sn, api, chk, push, shown, counts, build, sched, srv, calc, sw>>
  /\ History

\* the 500 ms are over: perm = Notification.permission
ToggleDelay ==
  /\ ui.toggle.pc = "delay"
  /\ ui' = ToggleChecked(ui, ui.browser)
  /\ UNCHANGED <<now, store, sn, api, chk, push, shown, counts, build, sched, srv, calc, sw>>
  /\ History

\* requestFCMToken resolves with a token: the flag and the first date are
\* stored, setIsPushEnabled(true), return true
ToggleToken ==
  /\ ui.toggle.pc = "token"
  /\ ui.fb.initialized /\ ui.fb.messaging # 0
  /\ ui' = PushEffect(ui, [ui EXCEPT
              !.storage = [pushEnabled |-> "true",
                           firstEnabled |-> IF @.firstEnabled = 0 THEN now
                                            ELSE @.firstEnabled],
              !.hook = Finally([@ EXCEPT !.isPushEnabled = TRUE]),
              !.toggle = [@ EXCEPT !.pc = "done", !.result = "true"]])
  /\ UNCHANGED <<now, store, sn, api, chk, push, shown, counts, build, sched, srv, calc, sw>>
  /\ History

\* requestFCMToken throws: Firebase is not initialized, messaging is not
\* available, or the token cannot be retrieved
ToggleTokenFail ==
  /\ ui.toggle.pc = "token"
  /\ \/ ~ui.fb.initialized
     \/ ui.fb.messaging = 0
     \/ CanFail
  /\ ui' = [ui EXCEPT !.hook = Finally(@), !.toggle = ToggleCaught(@)]
  /\ counts' = IF ui.fb.initialized /\ ui.fb.messaging # 0 THEN Fault ELSE counts
  /\ UNCHANGED <<now, store, sn, api, chk, push, shown, build, sched, srv, calc, sw>>
  /\ History

\* a localStorage.setItem throws after the token was obtained: the one of
\* the flag, or the one of the first date, which is made only when no date
\* is stored and leaves the flag stored
ToggleStoreFail ==
  /\ CanFail
  /\ ui.toggle.pc = "token"
  /\ ui.fb.initialized /\ ui.fb.messaging # 0
  /\ \E flagStored \in BOOLEAN :
       /\ flagStored => ui.storage.firstEnabled = 0
       /\ ui' = [ui EXCEPT
                   !.storage.pushEnabled = IF flagStored THEN "true" ELSE @,
                   !.hook = Finally(@), !.toggle = ToggleCaught(@)]
  /\ counts' = Fault
  /\ UNCHANGED <<now, store, sn, api, chk, push, shown, build, sched, srv, calc, sw>>
  /\ History

(***************************************************************************)
(* The time helpers at work: a Date is formatted, the text is parsed       *)
(* against another day, and the result is formatted again.                 *)
(***************************************************************************)
\* the day parseTime is given: Sat Jan 03 1970, 05:00
ParseDay == T0 + DayMs + 5 * HourMs

\* an event half a second past 12:30, with a secondary time
E6 == [id |-> "e6", categoryId |-> "alert", name |-> "Lunch",
       time |-> T0 + 750 * MinuteMs + 500, secondaryTime |-> T0 + 765 * MinuteMs]

PlanEvents == {E1, E2, E3, E5, E6}

\* the same event, preferences and Date.now() given to the builder and to
\* scheduleTaskForUser; the event's category is enabled, no override is set
PlanBoth ==
  /\ calc.pc = "idle"
  /\ \E event \in PlanEvents, minutesBefore \in OffsetOptions,
        notificationReference \in {"primary", "secondary"},
        t \in PlanInstants \cup {T0 + 750 * MinuteMs + 500, T0 + 750 * MinuteMs + 501} :
       LET preferences == [categories |-> (event.categoryId :> TRUE),
                           minutesBefore |-> minutesBefore,
                           notificationReference |-> notificationReference]
       IN  calc' = [pc |-> "planned", event |-> event, preferences |-> preferences,
                    now |-> t,
                    out |-> buildScheduledNotifications(<<event>>, preferences, t),
                    eventTimeStr |-> EventTimeStr(event, preferences),
                    early |-> EarlyReturn(preferences, << >>, event, t, t),
                    task |-> Task("t1", event, preferences)]
  /\ UNCHANGED <<now, store, sn, api, chk, push, shown, counts, build, sched, srv, ui, sw>>
  /\ History

FormatTime ==
  /\ calc.pc = "idle"
  /\ \E hours \in 0..23, minutes \in 0..59, use24Hour \in BOOLEAN :
       calc' = [pc |-> "formatted", hours |-> hours, minutes |-> minutes,
                use24Hour |-> use24Hour,
                text |-> formatTime(setHours(T0, hours, minutes), use24Hour),
                parsed |-> NoDate, again |-> << >>]
  /\ UNCHANGED <<now, store, sn, api, chk, push, shown, counts, build, sched, srv, ui, sw>>
  /\ History

ParseTime ==
  /\ calc.pc = "formatted"
  /\ LET parsed == parseTime(calc.text, ParseDay)
     IN  calc' = [calc EXCEPT !.pc = "parsed", !.parsed = parsed,
                    !.again = IF parsed = NoDate THEN << >>
                              ELSE formatTime(parsed, calc.use24Hour)]
  /\ UNCHANGED <<now, store, sn, api, chk, push, shown, counts, build, sched, srv, ui, sw>>
  /\ History

(***************************************************************************)
(* storeNotifications(notifications)                                       *)
(***************************************************************************)
\* a forgotten rollback: the writes made so far stay
KeepsPartialWrites(committed, work) == work

\* what an aborted transaction leaves in the object store
Rollback(committed, work) == committed

\* what a committed transaction leaves in the object store
Commit(committed, work) == work

\* a merge instead of a replace: the old rows stay in the transaction's view
NotCleared(table) == table

\* tx.store.clear(): what the transaction sees of the old rows
Cleared(table) == EmptyTable

\* getDB resolves; the transaction is created and clear() has run in it.  The
\* list is what buildScheduledNotifications returns at this instant.
StoreBegin ==
  /\ sn.pc = "idle"
  /\ CanStart
  /\ \E r \in Rebuilds :
       LET list == buildScheduledNotifications(r.events, r.preferences, now)
       IN  sn' = [pc |-> IF list = << >> THEN "commit" ELSE "put",
                  list |-> list, i |-> 1, work |-> Cleared(store),
                  before |-> store, failed |-> FALSE, outcome |-> "none"]
  /\ counts' = Started
  /\ UNCHANGED <<now, store, api, chk, push, shown, build, sched, srv, ui, calc, sw>>
  /\ History

\* await tx.store.put(notification)
StorePut ==
  /\ sn.pc = "put"
  /\ sn' = [sn EXCEPT !.work = Put(sn.work, sn.list[sn.i]),
                      !.i = @ + 1,
                      !.pc = IF sn.i = Len(sn.list) THEN "commit" ELSE "put"]
  /\ UNCHANGED <<now, store, api, chk, push, shown, counts, build, sched, srv, ui, calc, sw>>
  /\ History

\* await tx.done
StoreCommit ==
  /\ sn.pc = "commit"
  /\ store' = Commit(store, sn.work)
  /\ sn' = [sn EXCEPT !.pc = "idle", !.outcome = "returned"]
  /\ UNCHANGED <<now, api, chk, push, shown, counts, build, sched, srv, ui, calc, sw>>
  /\ History

\* getDB rejects: the catch block logs and rethrows, nothing was touched
StoreOpenFail ==
  /\ CanFail
  /\ sn.pc = "idle"
  /\ CanStart
  /\ sn' = [IdleSn EXCEPT !.before = store, !.failed = TRUE, !.outcome = "threw"]
  /\ counts' = [Fault EXCEPT !.ops = @ + 1]
  /\ UNCHANGED <<now, store, api, chk, push, shown, build, sched, srv, ui, calc, sw>>
  /\ History

\* a request of the transaction or its commit fails: the transaction aborts,
\* the catch block logs and rethrows
StoreAbort ==
  /\ CanFail
  /\ TxActive
  /\ store' = Rollback(store, sn.work)
  /\ sn' = [sn EXCEPT !.pc = "idle", !.failed = TRUE, !.outcome = "threw"]
  /\ counts' = Fault
  /\ UNCHANGED <<now, api, chk, push, shown, build, sched, srv, ui, calc, sw>>
  /\ History

(***************************************************************************)
(* The other calls of the store.  A call starts when the previous one has  *)
(* settled; its outcome stays readable until the next call starts.         *)
(***************************************************************************)
ApiFree == api.pc \in {"idle", "done"} /\ CanStart

\* the ids a caller passes: the keys in the store and one that is not
CallIds == DOMAIN store \cup {"none_None_0_Thu Jan 01 1970"}

\* getPendingNotifications: getDB resolves, now = Date.now()
GetPendingBegin ==
  /\ ApiFree
  /\ api' = [IdleApi EXCEPT !.op = "getPendingNotifications", !.pc = "read", !.t = now]
  /\ counts' = Started
  /\ UNCHANGED <<now, store, sn, chk, push, shown, build, sched, srv, ui, calc, sw>>
  /\ History

\* getAllFromIndex('scheduled', 'by-time') resolves; the filter runs
GetPendingRead ==
  /\ api.op = "getPendingNotifications" /\ api.pc = "read"
  /\ ~TxActive
  /\ \E all \in ByTime(Records(store)) :
       api' = [api EXCEPT !.pc = "done", !.rows = Records(store),
                          !.list = Pending(all, api.t), !.outcome = "returned"]
  /\ UNCHANGED <<now, store, sn, chk, push, shown, counts, build, sched, srv, ui, calc, sw>>
  /\ History

\* getAllNotifications: db.getAll('scheduled')
GetAll ==
  /\ ApiFree
  /\ ~TxActive
  /\ api' = [IdleApi EXCEPT !.op = "getAllNotifications", !.pc = "done",
                            !.rows = Records(store), !.outcome = "returned"]
  /\ counts' = Started
  /\ UNCHANGED <<now, store, sn, chk, push, shown, build, sched, srv, ui, calc, sw>>
  /\ History

\* a cancel that writes even a record that is already delivered
WritesBackAlways(op, got) == got # NoRecord

\* markAsDelivered(id), cancelNotification(id): db.get('scheduled', id) resolves
\* and the condition of the if is evaluated
WritesBack(op, got) ==
  /\ got # NoRecord
  /\ op = "cancelNotification" => ~got[1].delivered

FlagGet ==
  /\ ApiFree
  /\ ~TxActive
  /\ \E op \in {"markAsDelivered", "cancelNotification"}, id \in CallIds :
       LET got == IF id \in DOMAIN store THEN <<store[id]>> ELSE NoRecord
       IN  api' = [IdleApi EXCEPT !.op = op, !.id = id, !.got = got,
                     !.pc = IF WritesBack(op, got) THEN "put" ELSE "done",
                     !.outcome = IF WritesBack(op, got) THEN "none" ELSE "returned"]
  /\ counts' = Started
  /\ UNCHANGED <<now, store, sn, chk, push, shown, build, sched, srv, ui, calc, sw>>
  /\ History

\* a write-back that flips the flag instead of setting it
Toggled(notification) == [notification EXCEPT !.delivered = ~@]

\* notification.delivered = true
Delivered(notification) == [notification EXCEPT !.delivered = TRUE]

\* notification.delivered = true; db.put('scheduled', notification)
FlagPut ==
  /\ api.op \in {"markAsDelivered", "cancelNotification"} /\ api.pc = "put"
  /\ ~TxActive
  /\ store' = Put(store, Delivered(api.got[1]))
  /\ api' = [api EXCEPT !.pc = "done", !.outcome = "returned"]
  /\ UNCHANGED <<now, sn, chk, push, shown, counts, build, sched, srv, ui, calc, sw>>
  /\ History

\* clearOldNotifications: yesterday = Date.now() - 24h; db.getAll resolves
ClearOldRead ==
  /\ ApiFree
  /\ ~TxActive
  /\ api' = [IdleApi EXCEPT !.op = "clearOldNotifications", !.pc = "delete",
                            !.t = now - 24 * 60 * 60 * 1000, !.rows = Records(store)]
  /\ counts' = Started
  /\ UNCHANGED <<now, store, sn, chk, push, shown, build, sched, srv, ui, calc, sw>>
  /\ History

\* a sweep that also takes the record exactly 24 hours old
OldIdsInclusive(all, yesterday) ==
  { n.id : n \in { r \in all : r.notificationTime <= yesterday } }

\* the ids clearOldNotifications deletes, from its snapshot
OldIds(all, yesterday) == { n.id : n \in { r \in all : r.notificationTime < yesterday } }

\* the delete transaction: tx.store.delete for each old record, tx.done
ClearOldDelete ==
  /\ api.op = "clearOldNotifications" /\ api.pc = "delete"
  /\ ~TxActive
  /\ store' = Delete(store, OldIds(api.rows, api.t))
  /\ api' = [api EXCEPT !.pc = "done", !.outcome = "returned"]
  /\ UNCHANGED <<now, sn, chk, push, shown, counts, build, sched, srv, ui, calc, sw>>
  /\ History

\* clearAllNotifications: db.clear('scheduled')
ClearAll ==
  /\ ApiFree
  /\ ~TxActive
  /\ store' = EmptyTable
  /\ api' = [IdleApi EXCEPT !.op = "clearAllNotifications", !.pc = "done",
                            !.outcome = "returned"]
  /\ counts' = Started
  /\ UNCHANGED <<now, sn, chk, push, shown, build, sched, srv, ui, calc, sw>>
  /\ History

\* a catch block that rethrows
Rethrown(op) == "threw"

\* how a call other than storeNotifications ends when getDB or a request
\* rejects: every catch block logs; the reads return [], none rethrows
CaughtOutcome(op) == "returned"

ApiOps == {"getPendingNotifications", "getAllNotifications", "markAsDelivered",
           "cancelNotification", "clearOldNotifications", "clearAllNotifications"}

\* getDB rejects at the start of a call
ApiOpenFail ==
  /\ CanFail
  /\ ApiFree
  /\ \E op \in ApiOps :
       api' = [IdleApi EXCEPT !.op = op, !.pc = "done", !.failed = TRUE,
                              !.outcome = CaughtOutcome(op)]
  /\ counts' = [Fault EXCEPT !.ops = @ + 1]
  /\ UNCHANGED <<now, store, sn, chk, push, shown, build, sched, srv, ui, calc, sw>>
  /\ History

\* a request of a call in flight rejects
ApiFail ==
  /\ CanFail
  /\ api.pc \in {"read", "put", "delete"}
  /\ api' = [api EXCEPT !.pc = "done", !.failed = TRUE, !.list = << >>,
                        !.outcome = CaughtOutcome(api.op)]
  /\ counts' = Fault
  /\ UNCHANGED <<now, store, sn, chk, push, shown, build, sched, srv, ui, calc, sw>>
  /\ History

(***************************************************************************)
(* checkAndShowDeviceNotifications, started by 'activate' or by 'fetch'.   *)
(***************************************************************************)
\* idb.openDB resolves, now = Date.now()
CheckerStart(c) ==
  /\ chk[c].pc \in {"idle", "done"}
  /\ CanStart
  /\ chk' = [chk EXCEPT ![c] = [IdleChk EXCEPT !.pc = "read", !.t = now]]
  /\ counts' = Started
  /\ UNCHANGED <<now, store, sn, api, push, shown, build, sched, srv, ui, calc, sw>>
  /\ History

\* getAllFromIndex resolves; the filter gives the pending list of this run
CheckerRead(c) ==
  /\ chk[c].pc = "read"
  /\ ~TxActive
  /\ \E all \in ByTime(Records(store)) :
       LET pending == Pending(all, chk[c].t)
       IN  chk' = [chk EXCEPT ![c].rows = Records(store),
                              ![c].pending = pending,
                              ![c].pc = IF pending = << >> THEN "done" ELSE "show"]
  /\ UNCHANGED <<now, store, sn, api, push, shown, counts, build, sched, srv, ui, calc, sw>>
  /\ History

\* await self.registration.showNotification(...) of the current pending record
CheckerShow(c) ==
  /\ chk[c].pc = "show"
  /\ shown' = Append(shown, [path |-> "device", tag |-> chk[c].pending[chk[c].k].id,
                             by |-> c,
                             categoryId |-> chk[c].pending[chk[c].k].categoryId,
                             eventName |-> chk[c].pending[chk[c].k].eventName,
                             at |-> chk[c].t])
  /\ chk' = [chk EXCEPT ![c].pc = "put"]
  /\ UNCHANGED <<now, store, sn, api, push, counts, build, sched, srv, ui, calc, sw>>
  /\ History

\* a write-back that forgets to set the flag
NotFlagged(notification) == notification

\* the record the checker writes back after showing it
Shown(notification) == [notification EXCEPT !.delivered = TRUE]

\* notification.delivered = true; tx.store.put(notification); tx.done
CheckerPut(c) ==
  /\ chk[c].pc = "put"
  /\ ~TxActive
  /\ store' = Put(store, Shown(chk[c].pending[chk[c].k]))
  /\ chk' = [chk EXCEPT ![c].k = @ + 1,
                        ![c].pc = IF chk[c].k = Len(chk[c].pending)
                                  THEN "done" ELSE "show"]
  /\ UNCHANGED <<now, sn, api, push, shown, counts, build, sched, srv, ui, calc, sw>>
  /\ History

\* a loop that catches a failed display and goes on to mark the record
RunCaughtInLoop(run) ==
  IF run.pc = "show"
  THEN [run EXCEPT !.pc = "put"]
  ELSE [run EXCEPT !.pc = "done", !.failed = TRUE]

\* the catch block around the whole run: logged, the run is over
RunCaught(run) == [run EXCEPT !.pc = "done", !.failed = TRUE]

\* openDB, the read, showNotification or the put rejects: the catch block of
\* the run logs and the run ends
CheckerFail(c) ==
  /\ CanFail
  /\ \/ chk[c].pc \in {"read", "show", "put"}
     \/ chk[c].pc \in {"idle", "done"} /\ CanStart
  /\ chk' = [chk EXCEPT ![c] =
               IF chk[c].pc \in {"idle", "done"}
               THEN RunCaught(IdleChk)
               ELSE RunCaught(chk[c])]
  /\ counts' = [Fault EXCEPT !.ops = IF chk[c].pc \in {"idle", "done"} THEN @ + 1 ELSE @]
  /\ UNCHANGED <<now, store, sn, api, push, shown, build, sched, srv, ui, calc, sw>>
  /\ History

(***************************************************************************)
(* The fetch listener.  lastNotificationCheck is a global of the script:   *)
(* the browser may stop an idle service worker at any time and evaluates   *)
(* the script again when the next event starts it.                         *)
(***************************************************************************)
NOTIFICATION_CHECK_INTERVAL == 60 * 1000

\* The instants the clock visits while fetch events arrive.
FetchInstants ==
  { T0 + 40 * MinuteMs,
    T0 + 40 * MinuteMs + 30 * 1000,
    T0 + 41 * MinuteMs,               \* 60000 ms after the first
    T0 + 41 * MinuteMs + 1,
    T0 + 45 * MinuteMs,               \* fire time of 01:00 with offset 15
    T0 + 45 * MinuteMs + 30 * 1000 }

TickFetch ==
  /\ \E t \in FetchInstants : t > now /\ now' = t
  /\ UNCHANGED <<store, sn, api, chk, push, shown, counts, build, sched, srv, ui, calc, sw>>
  /\ History

\* a fetch event: the throttle, and the checker run it starts.  The events
\* taken up are those that find no run of an earlier fetch event under way.
FetchEvent ==
  /\ CanStart
  /\ chk["fetch"].pc \in {"idle", "done"}
  /\ LET starts == now - sw.lastNotificationCheck > NOTIFICATION_CHECK_INTERVAL
     IN  /\ sw' = [lastNotificationCheck |-> IF starts THEN now
                                             ELSE sw.lastNotificationCheck,
                   fetches |-> Append(sw.fetches, [at |-> now, started |-> starts])]
         /\ chk' = IF starts
                   THEN [chk EXCEPT !["fetch"] = [IdleChk EXCEPT !.pc = "read", !.t = now]]
                   ELSE chk
  /\ counts' = Started
  /\ UNCHANGED <<now, store, sn, api, push, shown, build, sched, srv, ui, calc>>
  /\ History

\* the service worker has been idle for a while and is stopped; the script
\* is evaluated again for the next event
Restart ==
  /\ \A c \in Checkers : chk[c].pc \in {"idle", "done"}
  /\ push.cancelPc = "done" /\ ~push.showPending
  /\ sw.lastNotificationCheck # 0
  /\ \E t \in FetchInstants : t > now /\ now' = t
  /\ sw' = [sw EXCEPT !.lastNotificationCheck = 0]
  /\ UNCHANGED <<store, sn, api, chk, push, shown, counts, build, sched, srv, ui, calc>>
  /\ History

(***************************************************************************)
(* messaging.onBackgroundMessage and cancelDeviceNotification.             *)
(***************************************************************************)
\* payload.data of the pushes received ("" would be an absent field)
Payloads ==
  { [categoryId |-> "reminder", eventName |-> "Standup"],
    [categoryId |-> "reminder", eventName |-> "Standup_15"] }

OrDefault(value, default) == IF value = "" THEN default ELSE value

\* the notificationId of the handler
PushId(categoryId, eventName, today) ==
  categoryId \o "_" \o eventName \o "_" \o toDateString(today)

PushDone == push.cancelPc = "done" /\ ~push.showPending

\* the handler runs: cancelDeviceNotification(notificationId) is called and
\* not awaited, showNotification is called and its promise returned
PushArrive ==
  /\ PushDone
  /\ CanStart
  /\ \E data \in Payloads :
       LET categoryId == OrDefault(data.categoryId, "default")
           eventName == OrDefault(data.eventName, "Event")
       IN  push' = [IdlePush EXCEPT !.pc = "handled",
                      !.categoryId = categoryId, !.eventName = eventName,
                      !.at = now,
                      !.id = PushId(categoryId, eventName, now),
                      !.showPending = TRUE, !.cancelPc = "get"]
  /\ counts' = Started
  /\ UNCHANGED <<now, store, sn, api, chk, shown, build, sched, srv, ui, calc, sw>>
  /\ History

\* the pushed content is displayed
PushShow ==
  /\ push.showPending
  /\ shown' = Append(shown, [path |-> "push", tag |-> push.id, by |-> "push",
                             categoryId |-> push.categoryId,
                             eventName |-> push.eventName, at |-> push.at])
  /\ push' = [push EXCEPT !.showPending = FALSE]
  /\ UNCHANGED <<now, store, sn, api, chk, counts, build, sched, srv, ui, calc, sw>>
  /\ History

\* cancelDeviceNotification: openDB and db.get('scheduled', id) resolve
CancelGet ==
  /\ push.cancelPc = "get"
  /\ ~TxActive
  /\ LET got == IF push.id \in DOMAIN store THEN <<store[push.id]>> ELSE NoRecord
     IN  push' = [push EXCEPT !.got = got,
                    !.cancelPc = IF WritesBack("cancelNotification", got)
                                 THEN "put" ELSE "done"]
  /\ UNCHANGED <<now, store, sn, api, chk, shown, counts, build, sched, srv, ui, calc, sw>>
  /\ History

\* notification.delivered = true; db.put('scheduled', notification)
CancelPut ==
  /\ push.cancelPc = "put"
  /\ ~TxActive
  /\ store' = Put(store, [push.got[1] EXCEPT !.delivered = TRUE])
  /\ push' = [push EXCEPT !.cancelPc = "done"]
  /\ UNCHANGED <<now, sn, api, chk, shown, counts, build, sched, srv, ui, calc, sw>>
  /\ History

\* openDB, get or put rejects: the catch block logs
CancelFail ==
  /\ CanFail
  /\ push.cancelPc \in {"get", "put"}
  /\ push' = [push EXCEPT !.cancelPc = "done", !.failed = TRUE]
  /\ counts' = Fault
  /\ UNCHANGED <<now, store, sn, api, chk, shown, build, sched, srv, ui, calc, sw>>
  /\ History

(***************************************************************************)
(* Dual-path reconciliation.                                               *)
(***************************************************************************)
\* The ids buildScheduledNotifications gives the fallback records of the event
\* (categoryId, eventName) on the calendar date of the instant 'at'.
FallbackIds(categoryId, eventName, at) ==
  { buildNotificationId(categoryId, eventName, at, m) : m \in OffsetOptions }

\* the stored fallback records of the event the push in hand is for
Matching ==
  { id \in DOMAIN store :
      /\ store[id].categoryId = push.categoryId
      /\ store[id].eventName = push.eventName
      /\ id \in FallbackIds(push.categoryId, push.eventName, push.at) }

\* C1: once the push path has displayed a logical notification (categoryId,
\* eventName, calendar date), the checker never afterwards displays the
\* fallback record built for the same event and date.
C1_PushSuppressesFallback ==
  \A i, j \in 1..Len(shown) :
    (i < j /\ shown[i].path = "push" /\ shown[j].path = "device")
      => ~ /\ shown[j].categoryId = shown[i].categoryId
           /\ shown[j].eventName = shown[i].eventName
           /\ shown[j].tag \in
                FallbackIds(shown[i].categoryId, shown[i].eventName, shown[i].at)

\* C2: when a push arrives for (categoryId, eventName) on date D, the id its
\* cancel step looks up is the id of the stored fallback record of the same
\* categoryId, eventName and date D, whatever its minutesBefore.
C2_PushIdMatchesFallback ==
  push.cancelPc = "get" => \A id \in Matching : id = push.id

\* C3: cancel-then-show: at the step that displays the pushed content, every
\* stored fallback record of the same event and date has already been written
\* delivered=true.
C3_CancelBeforeShow ==
  [][(push.showPending /\ ~push.showPending')
       => \A id \in Matching : store[id].delivered]_vars

(***************************************************************************)
(* The fallback store.                                                     *)
(***************************************************************************)
\* the step that commits the transaction of storeNotifications
StoreCommitted == sn.pc = "commit" /\ sn'.pc = "idle" /\ sn'.outcome = "returned"

\* the records a list leaves in the table: for each id, the last one put
LastPerId(list) ==
  { list[i] : i \in { k \in DOMAIN list :
                        \A j \in DOMAIN list : j > k => list[j].id # list[k].id } }

DueAt(rows, t) ==
  { r \in rows : /\ r.delivered = FALSE
                 /\ r.notificationTime <= t
                 /\ t < r.notificationTime + WindowMs }

\* the run of trigger c that read the clock at t has displayed the record id
DisplayedBy(c, t, id) ==
  \E i \in DOMAIN shown :
    shown[i].path = "device" /\ shown[i].by = c /\ shown[i].at = t /\ shown[i].tag = id

ExactlyDue(list, rows, t) ==
  /\ { list[i] : i \in DOMAIN list } = DueAt(rows, t)
  /\ Len(list) = Cardinality(DueAt(rows, t))

\* C6: getPendingNotifications returns exactly the stored records with
\* delivered=false, notificationTime <= now and notificationTime > now - 30
\* min, and the checker's pending list is the same filter of what it read.
C6_PendingIsExactlyDue ==
  /\ (api.op = "getPendingNotifications" /\ api.pc = "done")
       => ExactlyDue(api.list, api.rows, api.t)
  /\ \A c \in Checkers : ExactlyDue(chk[c].pending, chk[c].rows, chk[c].t)

C6_Witness ==
  /\ api.op = "getPendingNotifications" /\ api.pc = "done" /\ ~api.failed
  /\ api.list # << >>
  /\ \E r \in api.rows :
       r.delivered /\ r.notificationTime <= api.t
                   /\ api.t < r.notificationTime + WindowMs

\* C7: with a non-decreasing clock, a record is missed for good once now >=
\* notificationTime + 30 min: the clock never goes back, a call or run reads
\* the clock when it starts, and no call or run that read a clock t >=
\* notificationTime + 30 min returns or displays the record.
C7_MissedPermanently ==
  [][/\ now' >= now
     /\ (api'.pc = "read" /\ api.pc # "read") => api'.t = now
     /\ \A c \in Checkers : (chk'[c].pc = "read" /\ chk[c].pc # "read") => chk'[c].t = now
     /\ \A i \in DOMAIN api'.list : api'.t < api'.list[i].notificationTime + WindowMs
     /\ \A c \in Checkers : \A i \in DOMAIN chk'[c].pending :
          chk'[c].t < chk'[c].pending[i].notificationTime + WindowMs
     /\ \A c \in Checkers : (chk[c].pc = "show" /\ chk'[c].pc = "put") =>
          /\ Len(shown') = Len(shown) + 1
          /\ shown'[Len(shown')].tag = chk[c].pending[chk[c].k].id]_vars

C7_Witness ==
  /\ api.op = "getPendingNotifications" /\ api.pc = "done" /\ ~api.failed
  /\ api.list = << >>
  /\ \E r \in api.rows : ~r.delivered /\ api.t >= r.notificationTime + WindowMs
  /\ chk["activate"].pc = "done" /\ ~chk["activate"].failed
  /\ chk["activate"].pending = << >>
  /\ \E r \in chk["activate"].rows :
       ~r.delivered /\ chk["activate"].t >= r.notificationTime + WindowMs
  /\ shown = << >>

\* C8: storeNotifications is a full replace: its commit leaves exactly the
\* records of the list, one per id, and getAllNotifications returns exactly
\* the records in the store.
C8_FullReplace ==
  [][/\ StoreCommitted =>
          /\ Records(store') = LastPerId(sn.list)
          /\ DOMAIN store' = { sn.list[i].id : i \in DOMAIN sn.list }
     /\ (api'.op = "getAllNotifications" /\ api' # api /\ ~api'.failed)
          => api'.rows = Records(store)]_vars

C8_Witness ==
  /\ sn.outcome = "returned"
  /\ \E id \in DOMAIN sn.before : id \notin DOMAIN store
  /\ Len(sn.list) = 2 /\ Cardinality(LastPerId(sn.list)) = 1
  /\ api.op = "getAllNotifications" /\ api.pc = "done" /\ ~api.failed
  /\ api.rows = LastPerId(sn.list)

WriteOps == {"markAsDelivered", "cancelNotification", "clearOldNotifications",
             "clearAllNotifications"}

ReadOps == {"getPendingNotifications", "getAllNotifications"}

C12_MarkAsDeliveredIdempotent ==
  [][(api'.op = "markAsDelivered" /\ api' # api /\ ~api'.failed) =>
       IF api.pc = "put"
       THEN /\ DOMAIN store' = DOMAIN store \cup {api.id}
            /\ \A k \in DOMAIN store \ {api.id} : store'[k] = store[k]
            /\ store'[api.id] = [api.got[1] EXCEPT !.delivered = TRUE]
            /\ (api.id \in DOMAIN store /\ store[api.id] = api.got[1])
                 => /\ store' = [store EXCEPT ![api.id].delivered = TRUE]
                    /\ store[api.id].delivered => store' = store
       ELSE /\ store' = store
            /\ api'.got = NoRecord
                 => /\ api'.pc = "done"
                    /\ api'.id \notin DOMAIN store']_vars

\* a markAsDelivered on a record that is already delivered, one of two stored
C12_Witness ==
  /\ api.op = "markAsDelivered" /\ api.pc = "done" /\ ~api.failed
  /\ api.got # NoRecord /\ api.got[1].delivered
  /\ api.id \in DOMAIN store /\ store[api.id] = api.got[1]
  /\ Cardinality(DOMAIN store) = 2
  /\ \E k \in DOMAIN store : ~store[k].delivered

\* C14: clearOldNotifications deletes exactly the records it read from the
\* store that have notificationTime < now - 24 hours, delivered or not, now
\* being the Date.now() of the call, and leaves every other record as it is;
\* on a store that is still as the call read it, what stays is exactly the
\* records with notificationTime >= now - 24 hours.
C14_ClearOldDeletesExactlyOld ==
  [][/\ (api'.op = "clearOldNotifications" /\ api' # api /\ api.pc # "delete"
         /\ ~api'.failed)
          => /\ api'.t = now - 24 * 60 * 60 * 1000
             /\ api'.rows = { store[id] : id \in DOMAIN store }
             /\ store' = store
     /\ (api.op = "clearOldNotifications" /\ api.pc = "delete"
         /\ api'.pc = "done" /\ ~api'.failed)
          => /\ DOMAIN store' =
                  DOMAIN store \ { r.id : r \in { x \in api.rows :
                                                    x.notificationTime < api.t } }
             /\ \A id \in DOMAIN store' : store'[id] = store[id]
             /\ { store[id] : id \in DOMAIN store } = api.rows
                  => DOMAIN store' =
                       { id \in DOMAIN store :
                           ~(store[id].notificationTime < api.t) }]_vars

\* a sweep that has deleted a delivered and an undelivered record
C14_Witness ==
  /\ api.op = "clearOldNotifications" /\ api.pc = "done" /\ ~api.failed
  /\ \E r \in api.rows : r.delivered /\ r.id \notin DOMAIN store
  /\ \E r \in api.rows : ~r.delivered /\ r.id \notin DOMAIN store
  /\ api.t = now - 24 * 60 * 60 * 1000

(***************************************************************************)
(* The builder.                                                            *)
(***************************************************************************)
\* the category is true in preferences.categories and is in config.categories
EnabledAndConfigured(preferences, categoryId) ==
  /\ categoryId \in DOMAIN preferences.categories
  /\ preferences.categories[categoryId] = TRUE
  /\ categoryId \in {"reminder", "alert"}

\* C16: every record the builder emits has a category that is enabled in the
\* preferences and found in the configuration; an event whose category is
\* false, absent or not configured gives no record, and the run still returns.
C16_NoRecordForDisabledCategory ==
  /\ \A i \in DOMAIN build.out :
       EnabledAndConfigured(build.preferences, build.out[i].categoryId)
  /\ \A k \in DOMAIN build.events :
       ~EnabledAndConfigured(build.preferences, build.events[k].categoryId)
         => \A i \in DOMAIN build.out :
              ~ /\ build.out[i].categoryId = build.events[k].categoryId
                /\ build.out[i].eventName = build.events[k].name
  /\ Len(build.from) = Len(build.out)

\* a run over an unconfigured, an absent and an enabled category
C16_Witness ==
  /\ build.events = <<E4, E2, E1>>
  /\ build.preferences.categories = ReminderLegacy
  /\ Len(build.out) = 1 /\ build.out[1].categoryId = "reminder"

\* the fire time of an event under the preferences
FireTime(event, preferences) ==
  (IF preferences.notificationReference = "secondary" /\ event.secondaryTime # NoTime
   THEN event.secondaryTime ELSE event.time) - preferences.minutesBefore * 60000

\* C18: every emitted record has notificationTime = baseTime -
\* minutesBefore*60000, not before the now of the build, and delivered=false;
\* an eligible event whose fire time is before now gives no record.
C18_FireTimeNotInPast ==
  /\ \A i \in DOMAIN build.out :
       /\ build.out[i].notificationTime = FireTime(build.from[i], build.preferences)
       /\ build.out[i].notificationTime >= build.now
       /\ build.out[i].delivered = FALSE
  /\ \A k \in DOMAIN build.events :
       (/\ EnabledAndConfigured(build.preferences, build.events[k].categoryId)
        /\ FireTime(build.events[k], build.preferences) < build.now)
         => \A i \in DOMAIN build.out :
              ~ /\ build.out[i].categoryId = build.events[k].categoryId
                /\ build.out[i].eventName = build.events[k].name
                /\ build.out[i].notificationTime =
                     FireTime(build.events[k], build.preferences)

\* a run that drops a past event and keeps one due exactly now
C18_Witness ==
  /\ \E i \in DOMAIN build.out : build.out[i].notificationTime = build.now
  /\ \E k \in DOMAIN build.events :
       /\ EnabledAndConfigured(build.preferences, build.events[k].categoryId)
       /\ FireTime(build.events[k], build.preferences) < build.now
  /\ build.preferences.minutesBefore = 15

\* C19: the id is stable across rebuilds: records of two runs whose events
\* have the same categoryId, name and calendar date, built with the same
\* minutesBefore, have the same id, whatever the now and the
\* notificationReference of the two runs.
C19_IdStableAcrossRebuilds ==
  build.prev.events # << >> =>
    \A i \in DOMAIN build.out : \A j \in DOMAIN build.prev.out :
      (/\ build.from[i].categoryId = build.prev.from[j].categoryId
       /\ build.from[i].name = build.prev.from[j].name
       /\ toDateString(build.from[i].time) = toDateString(build.prev.from[j].time)
       /\ build.preferences.minutesBefore = build.prev.preferences.minutesBefore)
        => build.out[i].id = build.prev.out[j].id

\* the same late event built twice, at two instants, under 'primary' and
\* under 'secondary'
C19_Witness ==
  /\ build.prev.events # << >>
  /\ build.now # build.prev.now
  /\ build.preferences.notificationReference # build.prev.preferences.notificationReference
  /\ build.preferences.minutesBefore = build.prev.preferences.minutesBefore
  /\ \E i \in DOMAIN build.out : \E j \in DOMAIN build.prev.out :
       /\ build.from[i] = E5 /\ build.prev.from[j] = E5
       /\ build.out[i].id = build.prev.out[j].id
       /\ build.out[i].notificationTime # build.prev.out[j].notificationTime

(***************************************************************************)
(* The daily scheduler.                                                    *)
(***************************************************************************)
\* the user and the event of a call of the pass
CallUser(call) == sched.users[call.u]

CallEvent(call) == sched.events[call.e]

\* the override of the category for the day when it is defined, otherwise
\* the category's flag in the preferences, false when absent
Eligible(user, event, date) ==
  LET day == toDateString(date)
      overrides == user.dateSpecificOverrides
      c == event.categoryId
  IN  IF day \in DOMAIN overrides /\ c \in DOMAIN overrides[day]
      THEN overrides[day][c] = TRUE
      ELSE c \in DOMAIN user.preferences.categories
             /\ user.preferences.categories[c] = TRUE

\* C15: scheduleTaskForUser treats the event as eligible iff the override of
\* the scheduling date for its category, when defined, is true, and otherwise
\* iff the category's flag in the preferences is true.
C15_EligibilityOverrideFirst ==
  \A i \in DOMAIN sched.calls :
    (sched.calls[i].outcome # "disabled")
      <=> Eligible(CallUser(sched.calls[i]), CallEvent(sched.calls[i]), sched.today)

\* a pass with a false override over a true flag, a true override over a
\* false flag, and an override of another day over an absent flag
C15_Witness ==
  /\ sched.pc = "done" /\ sched.users = <<U2, U3>> /\ sched.events = <<E1, E2>>
  /\ \E i \in DOMAIN sched.calls :
       /\ sched.calls[i].u = 1 /\ sched.calls[i].e = 1
       /\ sched.calls[i].outcome = "disabled"
  /\ \E i \in DOMAIN sched.calls :
       /\ sched.calls[i].u = 1 /\ sched.calls[i].e = 2
       /\ sched.calls[i].outcome = "disabled"
  /\ \E i \in DOMAIN sched.calls :
       /\ sched.calls[i].u = 2 /\ sched.calls[i].e = 2
       /\ sched.calls[i].outcome = "scheduled"

\* the base time: the secondary time iff the reference is 'secondary' and
\* the event has one
ChosenBase(event, preferences) ==
  IF preferences.notificationReference = "secondary" /\ event.secondaryTime # NoTime
  THEN event.secondaryTime
  ELSE event.time

\* C17: in the builder and in scheduleTaskForUser the fire time is computed
\* from secondaryTime iff notificationReference is 'secondary' and the event
\* has a secondaryTime, and from the primary time in every other case.
C17_BaseTimeSelection ==
  /\ \A i \in DOMAIN build.out :
       build.out[i].notificationTime + build.preferences.minutesBefore * 60000
         = ChosenBase(build.from[i], build.preferences)
  /\ \A i \in DOMAIN sched.calls :
       LET preferences == CallUser(sched.calls[i]).preferences
           fire == ChosenBase(CallEvent(sched.calls[i]), preferences)
                     - preferences.minutesBefore * 60000
       IN  /\ sched.calls[i].task # << >>
                => sched.calls[i].task[1].seconds * 1000 = fire
           /\ sched.calls[i].outcome = "passed" => fire < sched.calls[i].at
           /\ sched.calls[i].outcome \notin {"disabled", "passed"}
                => fire >= sched.calls[i].at

\* a pass for a user with reference 'secondary': one event with a secondary
\* time and one without, both scheduled
C17_Witness ==
  /\ sched.users = <<U2, U3>> /\ sched.events = <<E3, E5>>
  /\ \E i, j \in DOMAIN sched.calls :
       /\ sched.calls[i].u = 2 /\ sched.calls[i].e = 1
       /\ sched.calls[i].outcome = "scheduled"
       /\ sched.calls[i].task[1].seconds * 1000 = E3.time - 15 * 60000
       /\ sched.calls[j].u = 2 /\ sched.calls[j].e = 2
       /\ sched.calls[j].outcome = "scheduled"
       /\ sched.calls[j].task[1].seconds * 1000 = E5.secondaryTime - 15 * 60000

\* the (user, event) pairs a pass has to process
Pairs ==
  { <<u, e>> \in (DOMAIN sched.users) \X (DOMAIN sched.events) :
      sched.users[u].fcmToken # "" /\ sched.users[u].preferences # << >> }

\* the pairs the pass has processed so far
Processed(calls) == { <<calls[i].u, calls[i].e>> : i \in DOMAIN calls }

\* C20: a failed task creation does not abort the pass: the call returns
\* false (no alert of an escaped exception, nothing counted), the loop goes
\* on with the next pair, and at the end of the loops every pair has been
\* processed and scheduledCount is the number of tasks created.
C20_FailureDoesNotAbortPass ==
  [][/\ (sched.pc = "create" /\ sched'.pc # "create"
         /\ sched'.calls[Len(sched'.calls)].outcome = "failed")
          => /\ sched'.alerts = sched.alerts
             /\ sched'.scheduledCount = sched.scheduledCount
             /\ sched'.tasks = sched.tasks
             /\ sched'.pc = IF Processed(sched.calls) = Pairs
                            THEN "finish" ELSE "loop"
     /\ sched'.pc = "finish"
          => /\ Processed(sched'.calls) = Pairs'
             /\ Len(sched'.calls) = Cardinality(Pairs')
             /\ sched'.scheduledCount =
                  Cardinality({ i \in DOMAIN sched'.calls :
                                  sched'.calls[i].outcome = "scheduled" })]_vars

\* a pass that went on after a failed creation and scheduled a later pair
C20_Witness ==
  /\ sched.pc = "done"
  /\ \E i, j \in DOMAIN sched.calls :
       /\ i < j
       /\ sched.calls[i].outcome = "failed"
       /\ sched.calls[j].outcome = "scheduled"
  /\ sched.scheduledCount >= 1
  /\ Len(sched.calls) = Cardinality(Pairs)

\* the step in which cancelNotification evaluates its if: the record is
\* absent or already delivered, the call is over and nothing is written
CancelSkips ==
  (/\ api'.op = "cancelNotification" /\ api' # api /\ api.pc # "put"
   /\ ~api'.failed)
    => /\ store' = store
       /\ (api'.got = NoRecord \/ api'.got[1].delivered) => api'.pc = "done"
       /\ api'.pc = "put" => ~api'.got[1].delivered

\* the put of cancelNotification: the record it read, with delivered=true
CancelFlags ==
  (/\ api.op = "cancelNotification" /\ api.pc = "put"
   /\ api'.pc = "done" /\ ~api'.failed)
    => /\ store'[api.id] = [api.got[1] EXCEPT !.delivered = TRUE]
       /\ \A k \in DOMAIN store \ {api.id} : store'[k] = store[k]

C21_OneCallPerEligiblePair ==
  /\ \A i \in DOMAIN sched.calls :
       LET call == sched.calls[i]
           preferences == CallUser(call).preferences
           fire == ChosenBase(CallEvent(call), preferences)
                     - preferences.minutesBefore * 60000
       IN  /\ <<call.u, call.e>> \in Pairs
           /\ (call.task # << >>)
                <=> /\ Eligible(CallUser(call), CallEvent(call), sched.today)
                    /\ fire >= call.at
           /\ \A j \in DOMAIN sched.calls :
                (call.u = sched.calls[j].u /\ call.e = sched.calls[j].e) => i = j
  /\ (sched.pc = "finish" \/ (sched.pc = "done" /\ sched.users # << >>))
       => Processed(sched.calls) = Pairs
  /\ sched.pc \in {"loop", "finish", "done"}
       => sched.scheduledCount =
            Cardinality({ i \in DOMAIN sched.calls :
                            sched.calls[i].task # << >>
                              /\ sched.calls[i].outcome = "scheduled" })

\* a finished pass with a call that created a task, a call that returned for
\* a disabled category and a call that returned for a fire time already passed
C21_Witness ==
  /\ sched.pc = "done"
  /\ \E i, j, k \in DOMAIN sched.calls :
       /\ sched.calls[i].outcome = "scheduled"
       /\ sched.calls[j].outcome = "passed"
       /\ sched.calls[k].outcome = "disabled"
  /\ sched.scheduledCount = 1

\* C30: for every hour 0..23 and minute 0..59, the 24h text is the zero-padded
\* HH:MM and the 12h text shows hour 12 for hours 0 and 12, never 0; parsing
\* the text gives back the hour and the minute, and formatting the parsed
\* Date in the same form gives back the same text.
C30_ParseFormatRoundTrip ==
  /\ calc.pc \in {"formatted", "parsed"} =>
       LET h == calc.hours
           m == calc.minutes
           mm == <<Digits[(m \div 10) + 1], Digits[(m % 10) + 1]>>
           h12 == IF h % 12 = 0 THEN 12 ELSE h % 12
       IN  IF calc.use24Hour
           THEN calc.text = <<Digits[(h \div 10) + 1], Digits[(h % 10) + 1], ":">> \o mm
           ELSE /\ calc.text[1] # "0"
                /\ calc.text =
                     (IF h12 >= 10 THEN <<"1", Digits[h12 - 9]>> ELSE <<Digits[h12 + 1]>>)
                       \o <<":">> \o mm \o <<" ">>
                       \o (IF h >= 12 THEN <<"P", "M">> ELSE <<"A", "M">>)
  /\ calc.pc = "parsed" =>
       /\ calc.parsed = (ParseDay \div DayMs) * DayMs
                          + calc.hours * HourMs + calc.minutes * MinuteMs
       /\ calc.again = calc.text

\* 00:05 and 12:05 in the 12h form, parsed back to hours 0 and 12
C30_Witness ==
  /\ calc.pc = "parsed" /\ ~calc.use24Hour
  /\ calc.hours \in {0, 12} /\ calc.minutes = 5
  /\ calc.text[1] = "1" /\ calc.text[2] = "2"
  /\ calc.parsed # NoDate

\* the fire time and the decision to skip, from the claim's formula
PlanFire == ChosenBase(calc.event, calc.preferences)
              - calc.preferences.minutesBefore * 60000

PlanDecision ==
  /\ (calc.early = "passed") <=> (PlanFire < calc.now)
  /\ (calc.out = << >>) <=> (PlanFire < calc.now)
  /\ calc.early # "disabled"
  /\ calc.out # << >> => calc.out[1].notificationTime = PlanFire

\* C29: for the same event, minutesBefore, notificationReference and now,
\* scheduleTaskForUser skips iff the builder skips, schedules the task at
\* the instant of the record's notificationTime, and puts the record's
\* eventTimeStr in the payload.
C29_SchedulerAsBuilder ==
  calc.pc = "planned" =>
    /\ PlanDecision
    /\ calc.task.seconds * 1000 = PlanFire
    /\ calc.task.timeStr = calc.eventTimeStr

\* C29, amended: ... schedules the task at the whole second of the record's
\* notificationTime (scheduleTime.seconds is its floor) ...
C29_SchedulerAsBuilderToTheSecond ==
  calc.pc = "planned" =>
    /\ PlanDecision
    /\ calc.task.seconds = PlanFire \div 1000
    /\ calc.task.seconds * 1000 <= PlanFire
    /\ PlanFire < calc.task.seconds * 1000 + 1000
    /\ calc.task.timeStr = calc.eventTimeStr

\* the event due half a second past 12:30, planned at that very millisecond:
\* not skipped by either, the task scheduled at the whole second before
C29_Witness ==
  /\ calc.pc = "planned" /\ calc.event = E6 /\ calc.now = PlanFire
  /\ calc.early = "none" /\ calc.out # << >>
  /\ calc.task.seconds * 1000 < calc.out[1].notificationTime
  /\ calc.task.timeStr = <<"1", "2", ":", "3", "0", " ", "P", "M">>

\* the step that ends a pass, and the calls of sendAlertEmail it makes
PassEnds == sched.pc \notin {"idle", "done"} /\ sched'.pc = "done"

Alerted(subjects) ==
  \E subject \in subjects : sched'.alerts = Append(sched.alerts, subject)

\* C23: a pass that ends with zero events found, with zero notifications
\* scheduled or with an exception has called sendAlertEmail before it ends.
C23_SilentFailuresAlerted ==
  [][(PassEnds /\ sched'.scheduledCount = 0)
       => Alerted({"No Events Found", "Zero Notifications Scheduled",
                   "Scheduler Failed"})]_vars

\* C23, amended: ... or with zero notifications scheduled for at least one
\* user document ...; a pass that finds events and no user document ends
\* without an alert, and so does a pass that scheduled something.
C23_SilentFailuresAlertedUnlessNoUsers ==
  [][PassEnds =>
       /\ sched'.events = << >> => Alerted({"No Events Found", "Scheduler Failed"})
       /\ (sched'.users # << >> /\ sched'.scheduledCount = 0)
            => Alerted({"Zero Notifications Scheduled"})
       /\ (sched'.events # << >> /\ sched'.users = << >>)
            => \/ Alerted({"Scheduler Failed"})
               \/ sched'.alerts = sched.alerts
       /\ sched'.scheduledCount > 0 => sched'.alerts = sched.alerts]_vars

\* the three alerts have been sent, the last one by a pass that processed
\* every pair and scheduled nothing
C23_Witness ==
  /\ sched.pc = "done" /\ sched.users # << >> /\ sched.scheduledCount = 0
  /\ Len(sched.calls) = Cardinality(Pairs)
  /\ sched.alerts = <<"No Events Found", "Scheduler Failed",
                      "Zero Notifications Scheduled">>

\* the tasks the queue holds: created and not yet answered with a 2xx
Queued == { k \in DOMAIN sched.tasks : k \notin srv.done }

\* C22: after any sequence of daily passes and syncUserPreferences calls the
\* queue holds at most one task for a user, an event and a date.
C22_AtMostOneTaskPerUserEventDate ==
  \A j, k \in Queued :
    (/\ sched.tasks[j].fcmToken = sched.tasks[k].fcmToken
     /\ sched.tasks[j].eventId = sched.tasks[k].eventId
     /\ toDateString(sched.tasks[j].seconds * 1000)
          = toDateString(sched.tasks[k].seconds * 1000))
      => j = k

\* the outcome of the messaging.send the handler has just made
LastSend == srv'.sends[Len(srv'.sends)].outcome

\* C24: sendNotification calls deleteUser for the token exactly when
\* messaging.send rejects with registration-token-not-registered or
\* invalid-registration-token; on success and on any other error the
\* collection is unchanged; it returns true on success and false on every
\* failure, also when deleteUser fails.
C24_DeletesExactlyOnRejectedToken ==
  [][(srv.req.endpoint = "sendUserNotification" /\ srv'.req # srv.req)
       => /\ srv.req.pc = "send" =>
               /\ srv'.users = srv.users
               /\ Len(srv'.sends) = Len(srv.sends) + 1
               /\ (srv'.req.pc = "delete")
                    <=> LastSend \in {"messaging/registration-token-not-registered",
                                      "messaging/invalid-registration-token"}
               /\ (srv'.req.success = "true") <=> (LastSend = "sent")
               /\ srv'.req.pc = "done" => srv'.req.success \in {"true", "false"}
          /\ srv.req.pc = "delete" =>
               /\ srv'.req.pc = "done" /\ srv'.req.success = "false"
               /\ \/ srv'.users = srv.users
                  \/ /\ DOMAIN srv'.users = DOMAIN srv.users \ {srv.req.payload.fcmToken}
                     /\ \A t \in DOMAIN srv'.users : srv'.users[t] = srv.users[t]]_vars

\* the task created for a saved user was delivered, its token was rejected,
\* and the user's document is gone
C24_Witness ==
  /\ srv.req.endpoint = "sendUserNotification" /\ srv.req.pc = "done"
  /\ srv.req.task # 0 /\ srv.req.success = "false"
  /\ srv.sends[Len(srv.sends)].outcome = "messaging/registration-token-not-registered"
  /\ srv.users = << >>

\* C25: once messaging.send has rejected the token of a task, the queue does
\* not deliver the task again: no later messaging.send is made for it.
C25_RejectedTaskNotRetried ==
  \A i, j \in DOMAIN srv.sends :
    (/\ i < j
     /\ srv.sends[i].task # 0
     /\ srv.sends[i].outcome \in {"messaging/registration-token-not-registered",
                                   "messaging/invalid-registration-token"})
      => srv.sends[j].task # srv.sends[i].task

\* the fields a request of the endpoint has to carry
Required(endpoint) ==
  CASE endpoint = "syncUserPreferences" -> {"token", "preferences"}
    [] endpoint = "manageCategorySubscription" -> {"token", "categoryId", "enabled"}
    [] endpoint = "sendUserNotification" ->
         {"fcmToken", "categoryId", "eventName", "timeStr", "minutesBefore"}
    [] endpoint = "sendTestPush" -> {"token"}

\* a request has just reached its handler
Arrives == srv.req.pc \in {"idle", "done"} /\ srv'.req # srv.req

\* C26: a request that lacks a required field of its endpoint is answered
\* with a client error at once and nothing is written, created or sent; a
\* request with every field, enabled=false included, is taken up.
C26_MissingFieldIsClientError ==
  [][Arrives =>
       LET body == srv'.req.body
           missing == { f \in Required(srv'.req.endpoint) : body[f] = << >> }
       IN  /\ missing # {} =>
                /\ srv'.req.pc = "done" /\ srv'.req.status = 400
                /\ srv'.users = srv.users /\ srv'.sends = srv.sends
                /\ sched'.tasks = sched.tasks
           /\ missing = {} => srv'.req.pc # "done"]_vars

\* a togglePush call has just completed
ToggleCompletes ==
  /\ ui'.toggle.pc = "done"
  /\ ui.toggle.pc # "done" \/ ui'.toggle.n # ui.toggle.n

\* the call went through every step: for enabling, the permission is
\* granted, Firebase is initialized and the flag is stored
ToggleSucceeded ==
  IF ui'.toggle.enable
  THEN /\ ui'.toggle.perm = "granted" /\ ui'.hook.permission = "granted"
       /\ ui.fb.initialized /\ ui.fb.messaging # 0
       /\ ui'.storage.pushEnabled = "true" /\ ui'.storage.firstEnabled # 0
       /\ ui'.hook.isPushEnabled
  ELSE ui'.storage.pushEnabled = "false" /\ ~ui'.hook.isPushEnabled

\* C27: a togglePush call never rejects: it completes with true or false,
\* with true only when every step has succeeded, and isProcessing is false
\* when it has completed.
C27_ToggleResolvesBoolean ==
  [][/\ ui'.toggle.result \in {"none", "true", "false"}
     /\ ToggleCompletes =>
          /\ ui'.toggle.result \in {"true", "false"}
          /\ ui'.toggle.result = "true" => ToggleSucceeded
          /\ ~ui'.hook.isProcessing]_vars

\* an enabling call has failed after the permission was granted (the token
\* could not be obtained) and has resolved to false, isProcessing false again
C27_Witness ==
  /\ ui.toggle.pc = "done" /\ ui.toggle.enable
  /\ ui.toggle.perm = "granted"
  /\ ui.toggle.result = "false"
  /\ ui.fb.initialized /\ ui.fb.messaging # 0
  /\ ~ui.hook.isProcessing

\* C28: over any sequence or interleaving of initializeFirebase calls the
\* SDK's initializeApp is called at most once, the calls that return give
\* the same app and messaging, and a call that fails leaves initialized
\* false.
C28_InitializedAtMostOnce ==
  [][/\ ui'.fb.calls <= 1
     /\ \A c \in InitCalls :
          /\ ui.init[c].pc # "done" /\ ui'.init[c].pc = "done"
          /\ ui'.init[c].result = "threw"
          => ~ui'.fb.initialized
     /\ \A c, d \in { c \in InitCalls : ui'.init[c].result = "returned" } :
          /\ ui'.init[c].app = ui'.init[d].app
          /\ ui'.init[c].messaging = ui'.init[d].messaging]_vars

\* a checker run displays a record in this step
DeviceShows(c) == chk[c].pc = "show" /\ chk'[c].pc = "put"

\* the record the run of trigger c has at hand
AtHand(c) == chk[c].pending[chk[c].k]

\* C31: the fallback path acts on a record only while it reads as
\* undelivered, and only one handler at a time: when a checker run displays
\* a record, the store does not hold it as delivered, the other checker run
\* is not between its display and its write of the same record, and no
\* cancel is about to write it.
C31_FallbackDisplaysOnce ==
  [][\A c \in Checkers :
       DeviceShows(c) =>
         /\ AtHand(c).id \in DOMAIN store => ~store[AtHand(c).id].delivered
         /\ \A d \in Checkers \ {c} :
              chk[d].pc = "put" => AtHand(d).id # AtHand(c).id
         /\ push.cancelPc = "put" => push.id # AtHand(c).id]_vars

\* the fallback path has displayed the record before
DeviceShown(id) ==
  \E i \in DOMAIN shown : shown[i].path = "device" /\ shown[i].tag = id

\* C32: a record the checker has displayed and written delivered is not
\* displayed again by the checker after a rebuild with the same events and
\* preferences made at or after the display: no run displays a record that
\* was displayed and delivered before and that the store holds, rebuilt, as
\* undelivered.
C32_NotShownAgainAfterRebuild ==
  [][\A c \in Checkers :
       DeviceShows(c) =>
         ~ /\ DeviceShown(AtHand(c).id)
           /\ AtHand(c).id \in everDelivered
           /\ AtHand(c).id \in DOMAIN store
           /\ ~store[AtHand(c).id].delivered]_vars

\* the records of the run of trigger c that it has not processed: the one
\* at hand and those after it
Unprocessed(c) ==
  { chk[c].pending[j] : j \in { j \in DOMAIN chk[c].pending : j >= chk[c].k } }

\* a run inside the window of the record would take it up
TakenUp(table, n) ==
  /\ n.id \in DOMAIN table
  /\ \A t \in Instants :
       (n.notificationTime <= t /\ t < n.notificationTime + WindowMs)
         => IsPending(table[n.id], t)

\* C33: the checker writes delivered=true only on the record its run has
\* just displayed; when the display of a record fails the run is over, it
\* writes nothing, and the record and the pending records after it, so far
\* as the store holds them undelivered, are taken up by a next run inside
\* their window.
C33_DeliveredOnlyAfterShown ==
  [][\A c \in Checkers :
       /\ (chk[c].pc = "put" /\ chk'[c] # chk[c] /\ ~chk'[c].failed) =>
            /\ DisplayedBy(c, chk[c].t, AtHand(c).id)
            /\ store' = Put(store, [AtHand(c) EXCEPT !.delivered = TRUE])
       /\ ((chk[c].pc # "put" \/ chk'[c].failed) /\ chk'[c] # chk[c]) =>
            store' = store
       /\ (chk[c].pc = "show" /\ chk'[c].pc \notin {"show", "put"}) =>
            /\ chk'[c].pc = "done" /\ chk'[c].failed
            /\ \A n \in Unprocessed(c) :
                 (n.id \in DOMAIN store /\ store[n.id] = n) => TakenUp(store', n)]_vars

\* the display of the second pending record of a run has failed: the first
\* is delivered, the second is in the store undelivered and was not shown
C33_Witness ==
  \E c \in Checkers :
    /\ chk[c].pc = "done" /\ chk[c].failed
    /\ chk[c].k = 2 /\ Len(chk[c].pending) = 2
    /\ DisplayedBy(c, chk[c].t, chk[c].pending[1].id)
    /\ ~DisplayedBy(c, chk[c].t, chk[c].pending[2].id)
    /\ store[chk[c].pending[1].id].delivered
    /\ chk[c].pending[2].id \in DOMAIN store
    /\ ~store[chk[c].pending[2].id].delivered

\* a sync request is in hand, past the check of its body
Syncing ==
  srv.req.endpoint = "syncUserPreferences" /\ srv.req.pc \notin {"idle", "done"}

\* the category is true in the map of flags
IsTrue(categories, catId) == catId \in DOMAIN categories /\ categories[catId]

\* the categories of the preferences stored for the token
StoredCategories(users, token) ==
  LET preferences == DocOf(users, token).preferences
  IN  IF DOMAIN preferences = {} THEN << >> ELSE preferences.categories

PassEligible(users, token, event) ==
  LET user == DocOf(users, token)
  IN  /\ token \in DOMAIN users
      /\ ~Unusable(user)
      /\ IsEnabled(user.preferences, user.dateSpecificOverrides, event, now)

\* C35: when manageCategorySubscription(token, c, enabled) has succeeded
\* for a user whose preferences are stored, a scheduling pass computes for
\* the user and an event of category c the
\* eligibility 'enabled', and the user's other category flags,
\* minutesBefore, notificationReference and date overrides are as before.
C35_ManageSetsEligibility ==
  [][(/\ srv.req.endpoint = "manageCategorySubscription"
      /\ srv.req.pc = "update"
      /\ srv'.req.pc = "done" /\ srv'.req.status = 200
      /\ srv.req.body.token[1] \in DOMAIN srv.users
      /\ ~Unusable(DocOf(srv.users, srv.req.body.token[1]))) =>
       LET token == srv.req.body.token[1]
           c == srv.req.body.categoryId[1]
           enabled == srv.req.body.enabled[1]
           before == DocOf(srv.users, token)
           after == DocOf(srv'.users, token)
       IN  /\ PassEligible(srv'.users, token, E2) = enabled
           /\ after.dateSpecificOverrides = before.dateSpecificOverrides
           /\ DOMAIN after.preferences # {}
           /\ after.preferences.minutesBefore = before.preferences.minutesBefore
           /\ after.preferences.notificationReference
                = before.preferences.notificationReference
           /\ \A d \in DOMAIN before.preferences.categories \ {c} :
                IsTrue(after.preferences.categories, d)
                  = before.preferences.categories[d]]_vars

\* C36: once the owner has unmounted and no setupForegroundMessages call
\* is under way, no listener of the hook is subscribed; and at any time at
\* most one listener of the hook is subscribed.
C36_ListenerCleanedUp ==
  /\ Cardinality(ui.listeners) <= 1
  /\ (~ui.mounted /\ ui.setups = 0) => ui.listeners = {}

\* the fetch events that have started a checker run
FetchStarted == { i \in DOMAIN sw.fetches : sw.fetches[i].started }

\* C37: more than 60000 ms lie between two checker runs started by fetch
\* events, and a fetch event that arrives more than 60000 ms after the last
\* such run starts one.
C37_FetchThrottle ==
  /\ \A i, j \in FetchStarted :
       i < j => sw.fetches[j].at - sw.fetches[i].at > NOTIFICATION_CHECK_INTERVAL
  /\ \A j \in DOMAIN sw.fetches :
       (\A i \in FetchStarted :
          i < j => sw.fetches[j].at - sw.fetches[i].at > NOTIFICATION_CHECK_INTERVAL)
         => sw.fetches[j].started

\* the togglePush(true) that completes has obtained its token
TokenObtained ==
  /\ ui'.toggle.enable /\ ui'.toggle.perm = "granted"
  /\ ui.toggle.pc = "token" /\ ui.fb.initialized /\ ui.fb.messaging # 0

\* C38: the stored flag becomes 'true' only in a togglePush(true) that saw
\* the permission granted and obtained a token, and stops being 'true' only
\* in a togglePush(false); a togglePush(true) that fails leaves the stored
\* flag and isPushEnabled as they were; the first-enabled date is written
\* by the first enable that succeeds and is not written again.
C38_PersistedFlagFollowsToggle ==
  [][/\ ~ToggleCompletes =>
          /\ ui'.storage = ui.storage
          /\ ui'.hook.isPushEnabled = ui.hook.isPushEnabled
     /\ ToggleCompletes =>
          /\ (ui'.storage.pushEnabled = "true" /\ ui.storage.pushEnabled # "true")
               => TokenObtained
          /\ (ui'.storage.pushEnabled # "true" /\ ui.storage.pushEnabled = "true")
               => ~ui'.toggle.enable
          /\ (ui'.toggle.enable /\ ui'.toggle.result = "false") =>
               /\ ui'.storage.pushEnabled = ui.storage.pushEnabled
               /\ ui'.hook.isPushEnabled = ui.hook.isPushEnabled
          /\ ui.storage.firstEnabled # 0 =>
               ui'.storage.firstEnabled = ui.storage.firstEnabled
          /\ ui'.storage.firstEnabled # ui.storage.firstEnabled =>
               TokenObtained /\ ui'.toggle.result = "true"]_vars

Next ==
  \/ Tick
  \/ StoreBegin
  \/ StorePut
  \/ StoreCommit
  \/ StoreOpenFail
  \/ StoreAbort
  \/ \E c \in Checkers : CheckerStart(c)
  \/ \E c \in Checkers : CheckerRead(c)
  \/ \E c \in Checkers : CheckerShow(c)
  \/ \E c \in Checkers : CheckerPut(c)
  \/ \E c \in Checkers : CheckerFail(c)
  \/ PushArrive
  \/ PushShow
  \/ CancelGet
  \/ CancelPut
  \/ CancelFail

Spec == Init /\ [][Next]_vars

\* The page's store calls, with one checker trigger and no pushes.
NextStore ==
  \/ TickStore
  \/ StoreBegin
  \/ StorePut
  \/ StoreCommit
  \/ StoreOpenFail
  \/ StoreAbort
  \/ GetPendingBegin
  \/ GetPendingRead
  \/ GetAll
  \/ FlagGet
  \/ FlagPut
  \/ ClearOldRead
  \/ ClearOldDelete
  \/ ClearAll
  \/ ApiOpenFail
  \/ ApiFail
  \/ CheckerStart("activate")
  \/ CheckerRead("activate")
  \/ CheckerShow("activate")
  \/ CheckerPut("activate")
  \/ CheckerFail("activate")

SpecStore == Init /\ [][NextStore]_vars

\* The plan of a day: the page builds its fallback records and the server's
\* daily scheduler creates the push tasks, from the same events.
NextPlan ==
  \/ TickPlan
  \/ Build
  \/ SchedStart
  \/ SchedEvents
  \/ SchedUsers
  \/ SchedSkipUser
  \/ SchedCall
  \/ SchedCreated
  \/ SchedCreateFail
  \/ SchedFinish
  \/ SchedThrow

SpecPlan == Init /\ [][NextPlan]_vars

RECURSIVE PutAll(_, _)
PutAll(table, list) ==
  IF list = << >> THEN table ELSE PutAll(Put(table, Head(list)), Tail(list))

\* the rebuild the page makes when it loads
FirstRebuild ==
  [events |-> <<E1, E2>>,
   preferences |-> [categories |-> AllOn, minutesBefore |-> 15,
                    notificationReference |-> "primary"]]

\* The page has rebuilt once: a storeNotifications call has committed the
\* list built at the first instant.  The budget counts the calls after it.
InitStored ==
  /\ now = T0 + 40 * MinuteMs
  /\ LET r == FirstRebuild
         list == buildScheduledNotifications(r.events, r.preferences, T0 + 40 * MinuteMs)
       IN  /\ store = PutAll(EmptyTable, list)
           /\ sn = [IdleSn EXCEPT !.list = list, !.i = Len(list) + 1,
                                  !.work = PutAll(EmptyTable, list),
                                  !.outcome = "returned"]
  /\ api = IdleApi
  /\ chk = [c \in Checkers |-> IdleChk]
  /\ push = IdlePush
  /\ shown = << >>
  /\ counts = [ops |-> 0, faults |-> 0]
  /\ everDelivered = {}
  /\ cancelled = {}
  /\ build = NoBuild
  /\ sched = IdleSched
  /\ srv = IdleSrv
  /\ ui = IdleUi
  /\ calc = NoCalc
  /\ sw = FreshSw

\* The page after its first rebuild: rebuilds, flag writes and reads.
NextStored ==
  \/ Tick
  \/ StoreBegin
  \/ StorePut
  \/ StoreCommit
  \/ StoreOpenFail
  \/ StoreAbort
  \/ GetPendingBegin
  \/ GetPendingRead
  \/ GetAll
  \/ FlagGet
  \/ FlagPut
  \/ ApiOpenFail
  \/ ApiFail

SpecStored == InitStored /\ [][NextStored]_vars

\* The page after its first rebuild and the service worker's checker: the
\* page rebuilds again with the same events and preferences, the checker
\* runs of the fetch listener follow one another.
StoreAgain ==
  /\ sn.pc = "idle"
  /\ CanStart
  /\ LET r == FirstRebuild
         list == buildScheduledNotifications(r.events, r.preferences, now)
     IN  sn' = [pc |-> IF list = << >> THEN "commit" ELSE "put",
                list |-> list, i |-> 1, work |-> Cleared(store),
                before |-> store, failed |-> FALSE, outcome |-> "none"]
  /\ counts' = Started
  /\ UNCHANGED <<now, store, api, chk, push, shown, build, sched, srv, ui, calc, sw>>
  /\ History

NextRebuilt ==
  \/ Tick
  \/ StoreAgain
  \/ StorePut
  \/ StoreCommit
  \/ StoreOpenFail
  \/ StoreAbort
  \/ CheckerStart("fetch")
  \/ CheckerRead("fetch")
  \/ CheckerShow("fetch")
  \/ CheckerPut("fetch")
  \/ CheckerFail("fetch")

SpecRebuilt == InitStored /\ [][NextRebuilt]_vars

\* The service worker's fetch events on the page after its first rebuild.
NextFetch ==
  \/ TickFetch
  \/ FetchEvent
  \/ Restart
  \/ CheckerRead("fetch")
  \/ CheckerShow("fetch")
  \/ CheckerPut("fetch")

SpecFetch == InitStored /\ [][NextFetch]_vars

\* The page once the initializeFirebase of the mount effect has returned,
\* in a browser with service workers.
ReadyUi ==
  [IdleUi EXCEPT
     !.fb = [initialized |-> TRUE, app |-> 1, messaging |-> 1, calls |-> 1],
     !.env.serviceWorker = "yes",
     !.init["mount"] = [pc |-> "done", result |-> "returned",
                        app |-> 1, messaging |-> 1]]

InitReady ==
  /\ now = T0 + 40 * MinuteMs
  /\ store = EmptyTable
  /\ sn = IdleSn
  /\ api = IdleApi
  /\ chk = [c \in Checkers |-> IdleChk]
  /\ push = IdlePush
  /\ shown = << >>
  /\ counts = [ops |-> 0, faults |-> 0]
  /\ everDelivered = {}
  /\ cancelled = {}
  /\ build = NoBuild
  /\ sched = IdleSched
  /\ srv = IdleSrv
  /\ ui = ReadyUi
  /\ calc = NoCalc
  /\ sw = FreshSw

\* The hook on that page: togglePush calls, the foreground listener, the
\* unmount of the owner.
NextHook ==
  \/ TickPlan
  \/ ToggleBegin
  \/ ToggleDisableFail
  \/ ToggleRequest
  \/ ToggleDelay
  \/ ToggleToken
  \/ ToggleTokenFail
  \/ ToggleStoreFail
  \/ OnForegroundMessage
  \/ SetupResolve
  \/ SetupFail
  \/ Unmount

SpecHook == InitReady /\ [][NextHook]_vars

\* The page: the Firebase initialization and the hook's togglePush.
NextPage ==
  \/ TickPlan
  \/ \E c \in InitCalls : InitBegin(c)
  \/ \E c \in InitCalls : InitApp(c)
  \/ \E c \in InitCalls : InitFail(c)
  \/ ToggleBegin
  \/ ToggleDisableFail
  \/ ToggleRequest
  \/ ToggleDelay
  \/ ToggleToken
  \/ ToggleTokenFail
  \/ ToggleStoreFail

SpecPage == Init /\ [][NextPage]_vars

\* The server: the HTTP endpoints, the task queue and the daily pass over
\* the stored documents.
NextServer ==
  \/ TickPlan
  \/ SyncArrive
  \/ SyncGet
  \/ SyncSave
  \/ SyncEvents
  \/ SyncCall
  \/ SyncCreated
  \/ SyncCreateFail
  \/ ManageArrive
  \/ ManageUpdate
  \/ ReqThrow
  \/ SendArrive
  \/ QueueDeliver
  \/ SendSent
  \/ SendRejected
  \/ SendDelete
  \/ SendDeleteFail
  \/ TestArrive
  \/ TestSend
  \/ SchedStart
  \/ SchedEvents
  \/ SchedUsersStored
  \/ SchedSkipUser
  \/ SchedCall
  \/ SchedCreated
  \/ SchedCreateFail
  \/ SchedFinish
  \/ SchedThrow

SpecServer == Init /\ [][NextServer]_vars

\* The time helpers applied to every hour and minute of a day.
NextTime ==
  \/ FormatTime
  \/ ParseTime
  \/ PlanBoth

SpecTime == Init /\ [][NextTime]_vars
====
